---- MODULE Spec2Model ----
(***************************************************************************)
(* Model of the data_sync engine: src/src/data_sync/database.py.           *)
(* One target table in one database, reached through either backend; the   *)
(* CSV file on disk; the calls sync_csv_file / dry run / the backend        *)
(* primitives, each taken as one atomic step (the engine is single-threaded *)
(* and every statement is committed on its own).                            *)
(***************************************************************************)
EXTENDS Integers, Sequences, FiniteSets, TLC

VARIABLES
    backend,  \* "sqlite" | "postgres": the backend DatabaseConnection.__enter__ selects
    db,       \* the target table: [exists, cols, pk, rows]
    file,     \* the CSV file on disk: [exists, header, rows]
    last      \* the last call and what it returned / raised

vars == <<backend, db, file, last>>

\* ---------------------------------------------------------------------------
\* Values
\* ---------------------------------------------------------------------------
\* Python None / SQL NULL
NULL == "NULL"
\* the file does not exist on disk
NoFile == [exists |-> FALSE, header |-> <<>>, rows |-> <<>>]

\* longest CSV file (data rows) the model writes
MaxRows == 2

Ids == {"1", "2"}
Vals == {"7", "x"}
Dates == {"d1", "d2"}

\* the strings PostgreSQL accepts as input of an INTEGER column
IsInt(v) == v \in {"1", "2", "3", "7"}

\* str.lower() on the column names the model uses
Lower(s) == IF s = "VAL" THEN "val" ELSE s

Range(q) == {q[i] : i \in DOMAIN q}

\* ---------------------------------------------------------------------------
\* Configuration (src/src/data_sync/config.py)
\* ---------------------------------------------------------------------------
ColumnMapping(csv, dbc, type) == [csv_column |-> csv, db_column |-> dbc, data_type |-> type]

SyncJob(id, cols, date) == [id_mapping |-> id, columns |-> cols, date_mapping |-> date]

\* job.date_mapping is None
NoDateMapping == [db_column |-> NULL]
\* "if job.date_mapping"
HasDateMapping(job) == job.date_mapping # NoDateMapping

\* ---------------------------------------------------------------------------
\* Backends
\* ---------------------------------------------------------------------------
Backends == {"sqlite", "postgres"}

\* map_data_type of the two backends, on the logical type names the jobs use
MapDataType(b, t) ==
    IF t = NULL THEN "TEXT"
    ELSE IF t \in {"integer", "int"} THEN "INTEGER"
    ELSE IF t \in {"float", "double"} THEN (IF b = "postgres" THEN "DOUBLE PRECISION" ELSE "REAL")
    ELSE IF t = "date" THEN (IF b = "postgres" THEN "DATE" ELSE "TEXT")
    ELSE IF t \in {"datetime", "timestamp"} THEN (IF b = "postgres" THEN "TIMESTAMP" ELSE "TEXT")
    ELSE "TEXT"

\* map_data_type on type names as text. A text is a list of pieces, each a
\* word (kept in lower case, with a mark when it is written in upper case) or
\* a blank; "VARCHAR(10) " is <<Piece("varchar", TRUE), Piece("(10)", TRUE), Blank>>.
\* No word of the model is the start or the join of other words.
Piece(w, up) == [w |-> w, up |-> up]
Blank == Piece(" ", FALSE)
\* str.lower, str.upper
LowerText(text) == [i \in DOMAIN text |-> Piece(text[i].w, FALSE)]
UpperText(text) == [i \in DOMAIN text |-> IF text[i] = Blank THEN Blank ELSE Piece(text[i].w, TRUE)]
\* str.strip
RECURSIVE StripText(_)
StripText(text) ==
    IF text = <<>> THEN <<>>
    ELSE IF Head(text) = Blank THEN StripText(Tail(text))
    ELSE IF text[Len(text)] = Blank THEN StripText(SubSeq(text, 1, Len(text) - 1))
    ELSE text
\* str.startswith("varchar")
StartsWithVarchar(text) == text # <<>> /\ Head(text) = Piece("varchar", FALSE)

\* data_type: None, or a text
NoneType == [none |-> TRUE, text |-> <<>>]
TypeName(text) == [none |-> FALSE, text |-> text]
\* an SQL type name, one word or two
Sql(w) == <<Piece(w, TRUE)>>
SqlText == Sql("text")

\* type_mapping of the two backends
TypeMapping(b) ==
    IF b = "postgres"
    THEN [integer |-> Sql("integer"), int |-> Sql("integer"),
          float |-> <<Piece("double", TRUE), Blank, Piece("precision", TRUE)>>,
          double |-> <<Piece("double", TRUE), Blank, Piece("precision", TRUE)>>,
          date |-> Sql("date"), datetime |-> Sql("timestamp"),
          timestamp |-> Sql("timestamp"), text |-> SqlText, string |-> SqlText]
    ELSE [integer |-> Sql("integer"), int |-> Sql("integer"),
          float |-> Sql("real"), double |-> Sql("real"),
          date |-> SqlText, datetime |-> SqlText, timestamp |-> SqlText,
          text |-> SqlText, string |-> SqlText]

\* PostgreSQLBackend.map_data_type, SQLiteBackend.map_data_type
MapDataTypeText(b, data_type) ==
    IF data_type.none THEN SqlText
    ELSE LET data_type_lower == StripText(LowerText(data_type.text))
         IN IF StartsWithVarchar(data_type_lower)
            THEN (IF b = "postgres" THEN UpperText(data_type.text) ELSE SqlText)
            ELSE IF Len(data_type_lower) = 1 /\ data_type_lower[1].w \in DOMAIN TypeMapping(b)
            THEN TypeMapping(b)[data_type_lower[1].w]
            ELSE SqlText

NoTable == [exists |-> FALSE, cols |-> <<>>, pk |-> {}, rows |-> {}]

\* The column of the table a quoted identifier names: SQLite matches column
\* names case-insensitively, PostgreSQL matches a quoted identifier exactly.
Resolve(b, t, name) ==
    IF name \in DOMAIN t.cols THEN name
    ELSE IF b = "sqlite" /\ \E c \in DOMAIN t.cols : Lower(c) = Lower(name)
    THEN CHOOSE c \in DOMAIN t.cols : Lower(c) = Lower(name)
    ELSE NULL

\* what the engine accepts as a value of a column of that type
Accepts(b, type, v) == b = "sqlite" \/ type # "INTEGER" \/ v = NULL \/ IsInt(v)

Ok(t) == [db |-> t, err |-> NULL]
Fail(t, e) == [db |-> t, err |-> e]

\* columns: sequence of [name, type] (a dict in insertion order)
\* variant: CREATE TABLE without IF NOT EXISTS
CreateTableMutNoIfNotExists(b, t, columns, primary_keys) ==
    IF t.exists THEN [db |-> t, err |-> "BackendError"]
    ELSE [db |-> [exists |-> TRUE,
                  cols |-> [n \in {columns[i].name : i \in DOMAIN columns} |->
                              columns[CHOOSE i \in DOMAIN columns : columns[i].name = n].type],
                  pk |-> {primary_keys[i] : i \in DOMAIN primary_keys},
                  rows |-> {}],
          err |-> NULL]
CreateTableIfNotExists(b, t, columns, primary_keys) ==
    LET names == {columns[i].name : i \in DOMAIN columns}
        dup == \E i, j \in DOMAIN columns :
                  i # j /\ (IF b = "sqlite" THEN Lower(columns[i].name) = Lower(columns[j].name)
                                            ELSE columns[i].name = columns[j].name)
        typeOf(n) == (CHOOSE i \in DOMAIN columns : columns[i].name = n)
    IN IF t.exists THEN Ok(t)
       ELSE IF dup \/ columns = <<>> \/ ~(Range(primary_keys) \subseteq names)
            THEN Fail(t, "BackendError")
       ELSE Ok([exists |-> TRUE,
                cols |-> [n \in names |-> columns[typeOf(n)].type],
                pk |-> Range(primary_keys),
                rows |-> {}])

GetExistingColumns(t) == {Lower(c) : c \in DOMAIN t.cols}

AddColumn(b, t, column_name, column_type) ==
    IF ~t.exists \/ Resolve(b, t, column_name) # NULL THEN Fail(t, "BackendError")
    ELSE Ok([t EXCEPT !.cols = (column_name :> column_type) @@ t.cols,
                      !.rows = {(column_name :> NULL) @@ r : r \in t.rows}])

\* INSERT ... ON CONFLICT (conflict_columns) DO UPDATE SET <the other columns>
\* row_data: a function from column names to values
\* variant: a plain INSERT, no conflict clause
UpsertRowMutInsertOnly(b, t, conflict_columns, row_data) ==
    IF ~t.exists THEN Fail(t, "BackendError")
    ELSE Ok([t EXCEPT !.rows = t.rows \cup
                {[c \in DOMAIN t.cols |-> IF c \in DOMAIN row_data THEN row_data[c] ELSE NULL]}])
UpsertRow(b, t, conflict_columns, row_data) ==
    LET columns == DOMAIN row_data
        update == {c \in columns : c \notin Range(conflict_columns)}
        target(c) == Resolve(b, t, c)
        conflict == {target(c) : c \in Range(conflict_columns)}
        \* the value the statement gives to table column tc, NULL when it names none
        given(tc) == IF tc \in columns THEN row_data[tc]
                     ELSE IF \E c \in columns : target(c) = tc
                     THEN row_data[CHOOSE c \in columns : target(c) = tc]
                     ELSE NULL
        new == [tc \in DOMAIN t.cols |-> given(tc)]
        hits == {r \in t.rows : \A k \in t.pk : new[k] # NULL /\ r[k] = new[k]}
    IN IF ~t.exists THEN Fail(t, "BackendError")
       \* "DO UPDATE SET" followed by nothing is a syntax error
       ELSE IF update = {} THEN Fail(t, "BackendError")
       ELSE IF \E c \in columns \cup Range(conflict_columns) : target(c) = NULL
            THEN Fail(t, "BackendError")
       \* ON CONFLICT must name a primary key or unique constraint
       ELSE IF t.pk = {} \/ conflict # t.pk THEN Fail(t, "BackendError")
       ELSE IF \E tc \in DOMAIN t.cols : ~Accepts(b, t.cols[tc], new[tc])
            THEN Fail(t, "BackendError")
       ELSE IF hits # {}
            THEN LET old == CHOOSE r \in hits : TRUE
                     upd == [tc \in DOMAIN t.cols |->
                               IF tc \in {target(c) : c \in update} THEN new[tc] ELSE old[tc]]
                 IN Ok([t EXCEPT !.rows = (t.rows \ {old}) \cup {upd}])
       \* a primary key column of PostgreSQL is NOT NULL; SQLite admits NULL there
       ELSE IF b = "postgres" /\ \E k \in t.pk : new[k] = NULL THEN Fail(t, "BackendError")
       ELSE Ok([t EXCEPT !.rows = t.rows \cup {new}])

\* the rows DELETE ... WHERE date_column = sync_date AND id_column NOT IN (current_ids) names
\* variant: IN instead of NOT IN
StaleRowsMutInverted(b, t, id_column, date_column, sync_date, current_ids) ==
    {r \in t.rows : /\ r[Resolve(b, t, date_column)] = sync_date
                    /\ r[Resolve(b, t, id_column)] \in current_ids}
StaleRows(b, t, id_column, date_column, sync_date, current_ids) ==
    {r \in t.rows : /\ r[Resolve(b, t, date_column)] = sync_date
                    /\ r[Resolve(b, t, id_column)] # NULL
                    /\ r[Resolve(b, t, id_column)] \notin current_ids}

\* variant: without the early return on empty current_ids
DeleteStaleRecordsMutNoGuard(b, t, id_column, date_column, sync_date, current_ids) ==
    IF ~t.exists \/ Resolve(b, t, id_column) = NULL \/ Resolve(b, t, date_column) = NULL
    THEN [db |-> t, err |-> "BackendError", deleted |-> 0]
    ELSE LET stale == StaleRows(b, t, id_column, date_column, sync_date, current_ids)
         IN [db |-> [t EXCEPT !.rows = t.rows \ stale], err |-> NULL,
             deleted |-> Cardinality(stale)]
DeleteStaleRecords(b, t, id_column, date_column, sync_date, current_ids) ==
    IF current_ids = {} THEN [db |-> t, err |-> NULL, deleted |-> 0]
    ELSE IF ~t.exists \/ Resolve(b, t, id_column) = NULL \/ Resolve(b, t, date_column) = NULL
    THEN [db |-> t, err |-> "BackendError", deleted |-> 0]
    ELSE LET stale == StaleRows(b, t, id_column, date_column, sync_date, current_ids)
         IN [db |-> [t EXCEPT !.rows = t.rows \ stale], err |-> NULL,
             deleted |-> Cardinality(stale)]

\* ---------------------------------------------------------------------------
\* DatabaseConnection.sync_csv_file
\* ---------------------------------------------------------------------------
\* dict[key] = value on a dict kept as a sequence of [name, type] in insertion order
DictSet(d, k, v) ==
    IF \E i \in DOMAIN d : d[i].name = k
    THEN [i \in DOMAIN d |-> IF d[i].name = k THEN [name |-> k, type |-> v] ELSE d[i]]
    ELSE Append(d, [name |-> k, type |-> v])

\* "Determine which columns to sync". Without explicit columns every CSV column
\* is mirrored; they are taken in header order (the code iterates a set).
SyncColumns(job, header) ==
    IF job.columns # <<>>
    THEN <<job.id_mapping>> \o job.columns
    ELSE <<job.id_mapping>> \o
         SelectSeq([i \in DOMAIN header |-> ColumnMapping(header[i], header[i], NULL)],
                   LAMBDA m : m.csv_column # job.id_mapping.csv_column)

\* the first missing source column makes the call raise ValueError
\* variant: only the id column is checked
MissingCsvColumnMutIgnoreColumns(job, header) ==
    job.id_mapping.csv_column \notin Range(header)
MissingCsvColumn(job, header) ==
    \/ job.id_mapping.csv_column \notin Range(header)
    \/ \E i \in DOMAIN job.columns : job.columns[i].csv_column \notin Range(header)

RECURSIVE ColumnsDefFrom(_, _, _, _)
ColumnsDefFrom(b, sync_columns, i, d) ==
    IF i > Len(sync_columns) THEN d
    ELSE ColumnsDefFrom(b, sync_columns, i + 1,
                        DictSet(d, sync_columns[i].db_column,
                                MapDataType(b, sync_columns[i].data_type)))

\* "Build column definitions with types from config" and "Add date column"
ColumnsDef(b, job, sync_columns) ==
    LET d == ColumnsDefFrom(b, sync_columns, 1, <<>>)
    IN IF HasDateMapping(job) THEN DictSet(d, job.date_mapping.db_column, "TEXT") ELSE d

\* "Primary key is always based on id_mapping only"
\* variant: the date column joins the key
PrimaryKeysMutWithDate(job) ==
    IF HasDateMapping(job)
    THEN <<job.id_mapping.db_column, job.date_mapping.db_column>>
    ELSE <<job.id_mapping.db_column>>
PrimaryKeys(job) == <<job.id_mapping.db_column>>

\* "Check for schema evolution: add missing columns from config"
\* variant: no column is ever added
AddMissingColumnsMutSkip(b, t, columns_def, existing_columns, i) == Ok(t)
RECURSIVE AddMissingColumns(_, _, _, _, _)
AddMissingColumns(b, t, columns_def, existing_columns, i) ==
    IF i > Len(columns_def) THEN Ok(t)
    ELSE IF Lower(columns_def[i].name) \notin existing_columns
    THEN LET r == AddColumn(b, t, columns_def[i].name, columns_def[i].type)
         IN IF r.err # NULL THEN r
            ELSE AddMissingColumns(b, r.db, columns_def, existing_columns, i + 1)
    ELSE AddMissingColumns(b, t, columns_def, existing_columns, i + 1)

\* the row_data dict of one CSV row
RowData(job, sync_columns, row, sync_date) ==
    LET used == {i \in DOMAIN sync_columns : sync_columns[i].csv_column \in DOMAIN row}
        dated == HasDateMapping(job) /\ sync_date # NULL
        names == {sync_columns[i].db_column : i \in used}
                 \cup (IF dated THEN {job.date_mapping.db_column} ELSE {})
        lastOf(c) == CHOOSE i \in used :
                        /\ sync_columns[i].db_column = c
                        /\ \A j \in used : sync_columns[j].db_column = c => j <= i
    IN [c \in names |->
          IF dated /\ c = job.date_mapping.db_column THEN sync_date
          ELSE row[sync_columns[lastOf(c)].csv_column]]

\* "Process each row": acc = [db, err, rows_synced, synced_ids]
\* variant: rows_synced counts distinct ids
RECURSIVE ProcessRowsMutCountsIds(_, _, _, _, _, _, _)
ProcessRowsMutCountsIds(b, job, sync_columns, rows, sync_date, i, acc) ==
    IF i > Len(rows) THEN acc
    ELSE LET row_data == RowData(job, sync_columns, rows[i], sync_date)
             r == UpsertRow(b, acc.db, PrimaryKeys(job), row_data)
             ids == acc.synced_ids \cup {row_data[job.id_mapping.db_column]}
         IN IF r.err # NULL THEN [acc EXCEPT !.err = r.err]
            ELSE ProcessRowsMutCountsIds(b, job, sync_columns, rows, sync_date, i + 1,
                                         [db |-> r.db, err |-> NULL,
                                          rows_synced |-> Cardinality(ids),
                                          synced_ids |-> ids])
\* variant: a failing row is skipped and the loop goes on
RECURSIVE ProcessRowsMutSkipsFailed(_, _, _, _, _, _, _)
ProcessRowsMutSkipsFailed(b, job, sync_columns, rows, sync_date, i, acc) ==
    IF i > Len(rows) THEN acc
    ELSE LET row_data == RowData(job, sync_columns, rows[i], sync_date)
             r == UpsertRow(b, acc.db, PrimaryKeys(job), row_data)
         IN IF r.err # NULL
            THEN ProcessRowsMutSkipsFailed(b, job, sync_columns, rows, sync_date, i + 1, acc)
            ELSE ProcessRowsMutSkipsFailed(b, job, sync_columns, rows, sync_date, i + 1,
                                           [db |-> r.db, err |-> NULL,
                                            rows_synced |-> acc.rows_synced + 1,
                                            synced_ids |-> acc.synced_ids
                                               \cup {row_data[job.id_mapping.db_column]}])
RECURSIVE ProcessRows(_, _, _, _, _, _, _)
ProcessRows(b, job, sync_columns, rows, sync_date, i, acc) ==
    IF i > Len(rows) THEN acc
    ELSE LET row_data == RowData(job, sync_columns, rows[i], sync_date)
             r == UpsertRow(b, acc.db, PrimaryKeys(job), row_data)
         IN IF r.err # NULL THEN [acc EXCEPT !.err = r.err]
            ELSE ProcessRows(b, job, sync_columns, rows, sync_date, i + 1,
                             [db |-> r.db, err |-> NULL,
                              rows_synced |-> acc.rows_synced + 1,
                              synced_ids |-> acc.synced_ids
                                             \cup {row_data[job.id_mapping.db_column]}])

\* "Clean up stale records if date_mapping is configured": if job.date_mapping
\* and sync_date
\* variant: the pass always runs
RunsStalePassMutAlways(job, sync_date) == TRUE
RunsStalePass(job, sync_date) == HasDateMapping(job) /\ sync_date # NULL

Raise(t, e) ==
    [db |-> t, err |-> e, rows_synced |-> 0, synced_ids |-> {},
     deleted |-> 0, cleaned |-> FALSE]

\* sync_csv_file(csv_path, job, sync_date): the table it leaves, the error it
\* raises (NULL: none, and then it returns rows_synced); with the values of its
\* locals rows_synced and synced_ids, whether the stale-delete pass ran
\* (cleaned) and how many rows it removed.
SyncCsvFile(b, t, f, job, sync_date) ==
    IF ~f.exists THEN Raise(t, "FileNotFoundError")
    ELSE IF f.header = <<>> THEN Raise(t, "ValueError")
    ELSE IF MissingCsvColumn(job, f.header) THEN Raise(t, "ValueError")
    ELSE
    LET sync_columns == SyncColumns(job, f.header)
        columns_def == ColumnsDef(b, job, sync_columns)
        created == CreateTableIfNotExists(b, t, columns_def, PrimaryKeys(job))
    IN IF created.err # NULL THEN Raise(created.db, created.err)
    ELSE
    LET evolved == AddMissingColumns(b, created.db, columns_def,
                                     GetExistingColumns(created.db), 1)
    IN IF evolved.err # NULL THEN Raise(evolved.db, evolved.err)
    ELSE
    LET loop == ProcessRows(b, job, sync_columns, f.rows, sync_date, 1,
                            [db |-> evolved.db, err |-> NULL,
                             rows_synced |-> 0, synced_ids |-> {}])
    IN IF loop.err # NULL
       THEN [db |-> loop.db, err |-> loop.err,
             rows_synced |-> loop.rows_synced, synced_ids |-> loop.synced_ids,
             deleted |-> 0, cleaned |-> FALSE]
    ELSE IF RunsStalePass(job, sync_date)
    THEN LET del == DeleteStaleRecords(b, loop.db, job.id_mapping.db_column,
                                       job.date_mapping.db_column, sync_date,
                                       loop.synced_ids)
         IN [db |-> del.db, err |-> del.err,
             rows_synced |-> loop.rows_synced, synced_ids |-> loop.synced_ids,
             deleted |-> del.deleted, cleaned |-> TRUE]
    ELSE [db |-> loop.db, err |-> NULL,
          rows_synced |-> loop.rows_synced, synced_ids |-> loop.synced_ids,
             deleted |-> 0, cleaned |-> FALSE]

\* sync_csv_file when the backend raises in the upsert of row k for a reason
\* outside the data (the connection is lost, the process is interrupted):
\* validation, table and columns as in SyncCsvFile, rows 1..k-1 upserted and
\* committed, then the exception leaves the function.
SyncCsvFileUntil(b, t, f, job, sync_date, k) ==
    IF ~f.exists THEN Raise(t, "FileNotFoundError")
    ELSE IF f.header = <<>> THEN Raise(t, "ValueError")
    ELSE IF MissingCsvColumn(job, f.header) THEN Raise(t, "ValueError")
    ELSE
    LET sync_columns == SyncColumns(job, f.header)
        columns_def == ColumnsDef(b, job, sync_columns)
        created == CreateTableIfNotExists(b, t, columns_def, PrimaryKeys(job))
    IN IF created.err # NULL THEN Raise(created.db, created.err)
    ELSE
    LET evolved == AddMissingColumns(b, created.db, columns_def,
                                     GetExistingColumns(created.db), 1)
    IN IF evolved.err # NULL THEN Raise(evolved.db, evolved.err)
    ELSE
    LET loop == ProcessRows(b, job, sync_columns, SubSeq(f.rows, 1, k - 1), sync_date, 1,
                            [db |-> evolved.db, err |-> NULL,
                             rows_synced |-> 0, synced_ids |-> {}])
    IN [db |-> loop.db,
        err |-> IF loop.err # NULL THEN loop.err ELSE "OperationalError",
        rows_synced |-> loop.rows_synced, synced_ids |-> loop.synced_ids,
        deleted |-> 0, cleaned |-> FALSE]

\* ---------------------------------------------------------------------------
\* Dry run (sync_csv_to_postgres_dry_run, imported by cli_sync.py)
\* ---------------------------------------------------------------------------
NoSummary == [table_exists |-> FALSE, rows_to_sync |-> 0, rows_to_delete |-> 0,
              new_columns |-> <<>>]

\* The summary of a dry run: the same validation and schema diff as
\* sync_csv_file, every write computed instead of applied.
SyncDryRun(b, t, f, job, sync_date) ==
    IF ~f.exists THEN [err |-> "FileNotFoundError", summary |-> NoSummary]
    ELSE IF f.header = <<>> THEN [err |-> "ValueError", summary |-> NoSummary]
    ELSE IF MissingCsvColumn(job, f.header) THEN [err |-> "ValueError", summary |-> NoSummary]
    ELSE
    LET sync_columns == SyncColumns(job, f.header)
        columns_def == ColumnsDef(b, job, sync_columns)
        existing_columns == GetExistingColumns(t)
        current_ids == {f.rows[i][job.id_mapping.csv_column] : i \in DOMAIN f.rows}
        scoped == /\ t.exists
                  /\ HasDateMapping(job) /\ sync_date # NULL
                  /\ Resolve(b, t, job.id_mapping.db_column) # NULL
                  /\ Resolve(b, t, job.date_mapping.db_column) # NULL
    IN [err |-> NULL,
        summary |->
          [table_exists |-> t.exists,
           rows_to_sync |-> Len(f.rows),
           rows_to_delete |->
              IF scoped
              THEN DeleteStaleRecords(b, t, job.id_mapping.db_column,
                                      job.date_mapping.db_column, sync_date,
                                      current_ids).deleted
              ELSE 0,
           new_columns |->
              IF t.exists
              THEN SelectSeq(columns_def, LAMBDA c : Lower(c.name) \notin existing_columns)
              ELSE <<>>]]

\* ---------------------------------------------------------------------------
\* sync_csv_file(csv_path, job, filename_values): jobs whose id_mapping is a
\* list and whose scope columns come from filename_to_column
\* ---------------------------------------------------------------------------
FilenameColumnMapping(name, db_column, data_type, use_to_delete_old_rows) ==
    [name |-> name, db_column |-> db_column, data_type |-> data_type,
     use_to_delete_old_rows |-> use_to_delete_old_rows]

\* id_mapping: sequence of ColumnMapping; filename_to_column: the sequence of
\* its FilenameColumnMapping in declaration order, <<>> when the job has none
SyncJobKeys(id_mapping, columns, filename_to_column) ==
    [id_mapping |-> id_mapping, columns |-> columns,
     filename_to_column |-> filename_to_column]

\* FilenameToColumn.get_delete_key_columns
GetDeleteKeyColumns(filename_to_column) ==
    LET keys == SelectSeq(filename_to_column, LAMBDA c : c.use_to_delete_old_rows)
    IN [i \in DOMAIN keys |-> keys[i].db_column]

\* the value the file name gives each delete-key column
DeleteKeyValues(filename_to_column, filename_values) ==
    LET keys == SelectSeq(filename_to_column, LAMBDA c : c.use_to_delete_old_rows)
    IN [i \in DOMAIN keys |-> filename_values[keys[i].name]]

\* the rows the stale pass removes: they carry the file's value in the
\* delete-key columns and their id is not among the ids the file held
\* variant: only the first delete-key column is compared
StaleRowsByKeysMutFirstKey(b, t, id_column, delete_keys, delete_values, current_ids) ==
    {r \in t.rows : /\ r[Resolve(b, t, delete_keys[1])] = delete_values[1]
                    /\ r[Resolve(b, t, id_column)] # NULL
                    /\ r[Resolve(b, t, id_column)] \notin current_ids}
\* variant: no delete-key column is compared
StaleRowsByKeysMutNoKey(b, t, id_column, delete_keys, delete_values, current_ids) ==
    {r \in t.rows : /\ r[Resolve(b, t, id_column)] # NULL
                    /\ r[Resolve(b, t, id_column)] \notin current_ids}
StaleRowsByKeys(b, t, id_column, delete_keys, delete_values, current_ids) ==
    {r \in t.rows : /\ \A i \in DOMAIN delete_keys :
                          r[Resolve(b, t, delete_keys[i])] = delete_values[i]
                    /\ r[Resolve(b, t, id_column)] # NULL
                    /\ r[Resolve(b, t, id_column)] \notin current_ids}

DeleteStaleByKeys(b, t, id_column, delete_keys, delete_values, current_ids) ==
    IF current_ids = {} THEN [db |-> t, err |-> NULL, deleted |-> 0]
    ELSE IF \/ ~t.exists
            \/ Resolve(b, t, id_column) = NULL
            \/ \E i \in DOMAIN delete_keys : Resolve(b, t, delete_keys[i]) = NULL
    THEN [db |-> t, err |-> "BackendError", deleted |-> 0]
    ELSE LET stale == StaleRowsByKeys(b, t, id_column, delete_keys, delete_values,
                                      current_ids)
         IN [db |-> [t EXCEPT !.rows = t.rows \ stale], err |-> NULL,
             deleted |-> Cardinality(stale)]

SyncColumnsKeys(job, header) ==
    IF job.columns # <<>>
    THEN job.id_mapping \o job.columns
    ELSE job.id_mapping \o
         SelectSeq([i \in DOMAIN header |-> ColumnMapping(header[i], header[i], NULL)],
                   LAMBDA m : \A k \in DOMAIN job.id_mapping :
                                 m.csv_column # job.id_mapping[k].csv_column)

MissingCsvColumnKeys(job, header) ==
    \/ \E i \in DOMAIN job.id_mapping : job.id_mapping[i].csv_column \notin Range(header)
    \/ \E i \in DOMAIN job.columns : job.columns[i].csv_column \notin Range(header)

\* the columns of the mappings, then one column per filename_to_column entry
ColumnsDefKeys(b, job, sync_columns) ==
    ColumnsDefFrom(b, sync_columns \o job.filename_to_column, 1, <<>>)

\* the primary key is every id column, in declaration order
\* variant: the first id column alone
PrimaryKeysKeysMutFirst(job) == <<job.id_mapping[1].db_column>>
PrimaryKeysKeys(job) == [i \in DOMAIN job.id_mapping |-> job.id_mapping[i].db_column]

\* the row_data dict of one CSV row: the mapped columns, then the values
\* extracted from the file name
RowDataKeys(job, sync_columns, row, filename_values) ==
    LET used == {i \in DOMAIN sync_columns : sync_columns[i].csv_column \in DOMAIN row}
        named == {i \in DOMAIN job.filename_to_column :
                     job.filename_to_column[i].name \in DOMAIN filename_values}
        fromName == {job.filename_to_column[i].db_column : i \in named}
        names == {sync_columns[i].db_column : i \in used} \cup fromName
        lastOf(c) == CHOOSE i \in used :
                        /\ sync_columns[i].db_column = c
                        /\ \A j \in used : sync_columns[j].db_column = c => j <= i
        nameOf(c) == CHOOSE i \in named : job.filename_to_column[i].db_column = c
    IN [c \in names |->
          IF c \in fromName THEN filename_values[job.filename_to_column[nameOf(c)].name]
          ELSE row[sync_columns[lastOf(c)].csv_column]]

\* "Process each row"; synced_ids collects the value of the first id column
RECURSIVE ProcessRowsKeys(_, _, _, _, _, _, _)
ProcessRowsKeys(b, job, sync_columns, rows, filename_values, i, acc) ==
    IF i > Len(rows) THEN acc
    ELSE LET row_data == RowDataKeys(job, sync_columns, rows[i], filename_values)
             r == UpsertRow(b, acc.db, PrimaryKeysKeys(job), row_data)
         IN IF r.err # NULL THEN [acc EXCEPT !.err = r.err]
            ELSE ProcessRowsKeys(b, job, sync_columns, rows, filename_values, i + 1,
                                 [db |-> r.db, err |-> NULL,
                                  rows_synced |-> acc.rows_synced + 1,
                                  synced_ids |-> acc.synced_ids
                                     \cup {row_data[job.id_mapping[1].db_column]}])

\* whether the stale pass runs: the job declares a delete-key column and the
\* file name gave its values
HasDeleteScope(job, filename_values) ==
    /\ GetDeleteKeyColumns(job.filename_to_column) # <<>>
    /\ DOMAIN filename_values # {}

SyncCsvFileKeys(b, t, f, job, filename_values) ==
    IF ~f.exists THEN Raise(t, "FileNotFoundError")
    ELSE IF f.header = <<>> THEN Raise(t, "ValueError")
    ELSE IF MissingCsvColumnKeys(job, f.header) THEN Raise(t, "ValueError")
    ELSE
    LET sync_columns == SyncColumnsKeys(job, f.header)
        columns_def == ColumnsDefKeys(b, job, sync_columns)
        created == CreateTableIfNotExists(b, t, columns_def, PrimaryKeysKeys(job))
    IN IF created.err # NULL THEN Raise(created.db, created.err)
    ELSE
    LET evolved == AddMissingColumns(b, created.db, columns_def,
                                     GetExistingColumns(created.db), 1)
    IN IF evolved.err # NULL THEN Raise(evolved.db, evolved.err)
    ELSE
    LET loop == ProcessRowsKeys(b, job, sync_columns, f.rows, filename_values, 1,
                                [db |-> evolved.db, err |-> NULL,
                                 rows_synced |-> 0, synced_ids |-> {}])
    IN IF loop.err # NULL
       THEN [db |-> loop.db, err |-> loop.err,
             rows_synced |-> loop.rows_synced, synced_ids |-> loop.synced_ids,
             deleted |-> 0, cleaned |-> FALSE]
    ELSE IF HasDeleteScope(job, filename_values)
    THEN LET del == DeleteStaleByKeys(b, loop.db, job.id_mapping[1].db_column,
                                      GetDeleteKeyColumns(job.filename_to_column),
                                      DeleteKeyValues(job.filename_to_column,
                                                      filename_values),
                                      loop.synced_ids)
         IN [db |-> del.db, err |-> del.err,
             rows_synced |-> loop.rows_synced, synced_ids |-> loop.synced_ids,
             deleted |-> del.deleted, cleaned |-> TRUE]
    ELSE [db |-> loop.db, err |-> NULL,
          rows_synced |-> loop.rows_synced, synced_ids |-> loop.synced_ids,
          deleted |-> 0, cleaned |-> FALSE]

\* the dry run of the same call: rows_to_delete is what the stale pass would
\* remove
DryRunDeletesKeys(b, t, f, job, filename_values) ==
    LET current_ids == {f.rows[i][job.id_mapping[1].csv_column] : i \in DOMAIN f.rows}
    IN IF /\ f.exists /\ f.header # <<>> /\ ~MissingCsvColumnKeys(job, f.header)
          /\ t.exists /\ HasDeleteScope(job, filename_values)
          /\ Resolve(b, t, job.id_mapping[1].db_column) # NULL
          /\ \A i \in DOMAIN job.filename_to_column :
                Resolve(b, t, job.filename_to_column[i].db_column) # NULL
       THEN DeleteStaleByKeys(b, t, job.id_mapping[1].db_column,
                              GetDeleteKeyColumns(job.filename_to_column),
                              DeleteKeyValues(job.filename_to_column, filename_values),
                              current_ids).deleted
       ELSE 0

\* ---------------------------------------------------------------------------
\* FilenameToColumn: templates and the values extracted from a file name
\* ---------------------------------------------------------------------------
\* A template is a sequence of tokens: a literal character or a [name]
\* placeholder. A file name and a value are sequences of characters.
Lit(c) == [kind |-> "lit", text |-> c]
Ph(n) == [kind |-> "ph", text |-> n]
Placeholders(template) ==
    {template[i].text : i \in {j \in DOMAIN template : template[j].kind = "ph"}}

NoMatch == [ok |-> FALSE, groups |-> <<>>]

\* _template_to_regex and the matcher on it: every literal is escaped and
\* matches itself, every placeholder is the group (?P<name>.+?), which takes
\* the fewest characters (at least one) that let the rest of the pattern match.
\* The match of tokens i.. against s from position pos on.
RECURSIVE MatchFrom(_, _, _, _, _)
MatchFrom(template, s, i, pos, groups) ==
    IF i > Len(template) THEN [ok |-> TRUE, groups |-> groups]
    ELSE IF template[i].kind = "lit"
    THEN IF pos <= Len(s) /\ s[pos] = template[i].text
         THEN MatchFrom(template, s, i + 1, pos + 1, groups)
         ELSE NoMatch
    ELSE LET take(n) == MatchFrom(template, s, i + 1, pos + n,
                                  (template[i].text :> SubSeq(s, pos, pos + n - 1)) @@ groups)
             lens == {n \in 1..(Len(s) - pos + 1) : take(n).ok}
         IN IF lens = {} THEN NoMatch
            ELSE take(CHOOSE n \in lens : \A m \in lens : n <= m)

\* extract_values_from_filename: re.search takes the leftmost position at
\* which the pattern matches; None (NoMatch) when there is none
ExtractValuesFromFilename(template, filename) ==
    LET starts == {p \in 1..(Len(filename) + 1) :
                      MatchFrom(template, filename, 1, p, <<>>).ok}
    IN IF starts = {} THEN NoMatch
       ELSE MatchFrom(template, filename, 1,
                      CHOOSE p \in starts : \A q \in starts : p <= q, <<>>)

\* the file name a template gives when each placeholder is replaced by its value
RECURSIVE Substitute(_, _, _)
Substitute(template, values, i) ==
    IF i > Len(template) THEN <<>>
    ELSE (IF template[i].kind = "lit" THEN <<template[i].text>>
          ELSE values[template[i].text])
         \o Substitute(template, values, i + 1)

\* ---------------------------------------------------------------------------
\* extract_cdf_to_csv, automerge
\* ---------------------------------------------------------------------------
\* A CDF variable: its name, its record count, and its array width (1 for a
\* variable that is not an array); its data hold num_records records.
CDFVariable(name, num_records, array_size) ==
    [name |-> name, num_records |-> num_records, is_array |-> array_size > 1,
     array_size |-> array_size]

\* A column name: a stem that does not end in "_<number>", and the "_<number>"
\* endings it carries, so that "a" is Name("a", <<>>), "a_1" is
\* Name("a", <<1>>) and "a_1_1" is Name("a", <<1, 1>>)
Name(stem, endings) == [stem |-> stem, endings |-> endings]
\* f"{name}_{n}"
WithSuffix(name, n) == [name EXCEPT !.endings = Append(@, n)]

\* _make_unique_column_names: seen maps each name met so far to the number of
\* times it was met again
RECURSIVE MakeUniqueFrom(_, _, _, _)
MakeUniqueFrom(column_names, i, seen, unique_names) ==
    IF i > Len(column_names) THEN unique_names
    ELSE LET name == column_names[i]
         IN IF name \notin DOMAIN seen
            THEN MakeUniqueFrom(column_names, i + 1,
                                [n \in DOMAIN seen \cup {name} |->
                                    IF n = name THEN 0 ELSE seen[n]],
                                Append(unique_names, name))
            ELSE MakeUniqueFrom(column_names, i + 1,
                                [seen EXCEPT ![name] = @ + 1],
                                Append(unique_names, WithSuffix(name, seen[name] + 1)))
MakeUniqueColumnNames(column_names) ==
    MakeUniqueFrom(column_names, 1, [n \in {} |-> 0], <<>>)

\* _group_variables_by_record_count: each group in the order of the file
\* variant: every group holds every variable
GroupVariablesMutAll(variables) ==
    [n \in {variables[i].num_records : i \in DOMAIN variables} |-> variables]
GroupVariablesByRecordCount(variables) ==
    [n \in {variables[i].num_records : i \in DOMAIN variables} |->
        SelectSeq(variables, LAMBDA v : v.num_records = n)]

\* get_column_names_for_variable, for a file without label metadata: the name
\* of a scalar, and <variable_name>_<index> for each element of an array
ColumnNamesForVariable(variable) ==
    IF variable.is_array
    THEN [i \in 1..variable.array_size |-> Name(variable.name, <<i - 1>>)]
    ELSE <<Name(variable.name, <<>>)>>

\* max_records = None
NoMaxRecords == -1

\* variant: the record limit is ignored
ExpandVariableMutNoCap(variable, max_records) ==
    [column_names |-> ColumnNamesForVariable(variable),
     data_columns |-> [i \in 1..(IF variable.is_array THEN variable.array_size ELSE 1) |->
                          variable.num_records],
     actual_records |-> variable.num_records]
\* _expand_variable_to_columns; data_columns holds the length of each column
ExpandVariableToColumns(variable, max_records) ==
    LET actual_records == IF max_records # NoMaxRecords /\ max_records < variable.num_records
                          THEN max_records ELSE variable.num_records
    IN [column_names |-> ColumnNamesForVariable(variable),
        data_columns |-> [i \in 1..(IF variable.is_array THEN variable.array_size ELSE 1) |->
                             actual_records],
        actual_records |-> actual_records]

Min(S) == CHOOSE n \in S : \A m \in S : n <= m
Max(S) == CHOOSE n \in S : \A m \in S : n >= m

\* the columns of one group, variable after variable
RECURSIVE GroupColumns(_, _, _)
GroupColumns(group_vars, max_records, i) ==
    IF i > Len(group_vars)
    THEN [column_names |-> <<>>, data_columns |-> <<>>, actual_records_list |-> <<>>]
    ELSE LET e == ExpandVariableToColumns(group_vars[i], max_records)
             rest == GroupColumns(group_vars, max_records, i + 1)
         IN [column_names |-> e.column_names \o rest.column_names,
             data_columns |-> e.data_columns \o rest.data_columns,
             actual_records_list |-> <<e.actual_records>> \o rest.actual_records_list]

\* the ExtractionResult of one group, with the lengths of the columns written
GroupResult(group_vars, max_records) ==
    LET g == GroupColumns(group_vars, max_records, 1)
    IN [variable_names |-> [i \in DOMAIN group_vars |-> group_vars[i].name],
        num_rows |-> Min(Range(g.actual_records_list)),
        num_columns |-> Len(MakeUniqueColumnNames(g.column_names)),
        column_names |-> MakeUniqueColumnNames(g.column_names),
        data_columns |-> g.data_columns]

\* the loop over the groups, largest record count first, groups of fewer than
\* two records skipped
RECURSIVE MergedResults(_, _, _)
MergedResults(groups, counts, max_records) ==
    IF counts = {} THEN <<>>
    ELSE LET record_count == Max(counts)
             rest == MergedResults(groups, counts \ {record_count}, max_records)
         IN IF record_count < 2 THEN rest
            ELSE <<GroupResult(groups[record_count], max_records)>> \o rest

\* extract_cdf_to_csv(..., automerge=True, append=False, variable_names,
\* max_records) into an empty output directory; variable_names = {} is None
ExtractCdfToCsv(all_variables, variable_names, max_records) ==
    LET found == {all_variables[i].name : i \in DOMAIN all_variables}
        variables == IF variable_names # {}
                     THEN SelectSeq(all_variables, LAMBDA v : v.name \in variable_names)
                     ELSE all_variables
        groups == GroupVariablesByRecordCount(variables)
    IN IF variable_names # {} /\ ~(variable_names \subseteq found)
       THEN [err |-> "ValueError", results |-> <<>>]
       ELSE [err |-> NULL,
             results |-> MergedResults(groups, DOMAIN groups, max_records)]

\* ---------------------------------------------------------------------------
\* extract_cdf_to_csv and its output directory
\* ---------------------------------------------------------------------------
\* The output directory: whether it exists, and for every file name the lines
\* of the file, if present. A line is the header row (its column names) or a
\* data row (the columns it was taken from and the index of the record).
FileNames == {"a", "b", "c"}
NoCsv == [present |-> FALSE, lines |-> <<>>]
NoDir == [exists |-> FALSE, files |-> [f \in FileNames |-> NoCsv]]
HeaderRow(column_names) == [kind |-> "header", column_names |-> column_names, row_idx |-> 0]
DataRow(column_names, row_idx) ==
    [kind |-> "data", column_names |-> column_names, row_idx |-> row_idx]

\* sorted(missing): the names in the order of the alphabet
Alphabet == <<"a", "b", "c">>
Rank(name) == CHOOSE i \in DOMAIN Alphabet : Alphabet[i] = name
RECURSIVE SortedMutDescending(_)
SortedMutDescending(names) ==
    IF names = {} THEN <<>>
    ELSE LET last_name == CHOOSE n \in names : \A m \in names : Rank(m) <= Rank(n)
         IN <<last_name>> \o SortedMutDescending(names \ {last_name})
RECURSIVE Sorted(_)
Sorted(names) ==
    IF names = {} THEN <<>>
    ELSE LET first == CHOOSE n \in names : \A m \in names : Rank(n) <= Rank(m)
         IN <<first>> \o Sorted(names \ {first})

\* _validate_existing_csv_header: the first row of the file is the expected
\* list of names (an empty file has no first row)
ValidateExistingCsvHeader(csv, expected_columns) ==
    /\ Len(csv.lines) > 0
    /\ csv.lines[1].kind = "header"
    /\ csv.lines[1].column_names = expected_columns

\* the file after the "Write CSV" block: mode "a" when appending to a file
\* that exists, else "w"; the header is written in mode "w" only
WriteCsvMutHeaderAlways(csv, append, column_names, actual_records) ==
    [present |-> TRUE,
     lines |-> (IF append /\ csv.present THEN csv.lines ELSE <<>>)
                  \o <<HeaderRow(column_names)>>
                  \o [row_idx \in 1..actual_records |-> DataRow(column_names, row_idx)]]
WriteCsv(csv, append, column_names, actual_records) ==
    LET mode == IF append /\ csv.present THEN "a" ELSE "w"
        write_header == mode = "w"
    IN [present |-> TRUE,
        lines |-> (IF mode = "a" THEN csv.lines ELSE <<>>)
                     \o (IF write_header THEN <<HeaderRow(column_names)>> ELSE <<>>)
                     \o [row_idx \in 1..actual_records |-> DataRow(column_names, row_idx)]]

\* the tables extract_cdf_to_csv writes, in the order it writes them: one per
\* group of at least 2 records (automerge), or one per variable of at least 2
\* records
RECURSIVE SeparateResults(_, _, _)
SeparateResults(variables, max_records, i) ==
    IF i > Len(variables) THEN <<>>
    ELSE IF variables[i].num_records < 2
         THEN SeparateResults(variables, max_records, i + 1)
         ELSE <<GroupResult(<<variables[i]>>, max_records)>>
                 \o SeparateResults(variables, max_records, i + 1)
Tables(variables, automerge, max_records) ==
    IF automerge
    THEN LET groups == GroupVariablesByRecordCount(variables)
         IN MergedResults(groups, DOMAIN groups, max_records)
    ELSE SeparateResults(variables, max_records, 1)

\* the loop over the tables, with the default template
\* "[SOURCE_FILE]-[VARIABLE_NAME].csv": the file of a table is named after its
\* first variable, and no two tables of one run share a name; a raise ends the
\* loop and keeps what was written before it
RECURSIVE WriteTables(_, _, _, _, _)
WriteTables(tables, i, output_dir, append, results) ==
    IF i > Len(tables)
    THEN [err |-> NULL, missing |-> <<>>, err_path |-> NULL, results |-> results,
          output_dir |-> output_dir]
    ELSE LET t == tables[i]
             output_path == t.variable_names[1]
             csv == output_dir.files[output_path]
         IN IF csv.present /\ ~append
            THEN [err |-> "FileExistsError", missing |-> <<>>, err_path |-> output_path,
                  results |-> <<>>, output_dir |-> output_dir]
            ELSE IF append /\ csv.present /\ ~ValidateExistingCsvHeader(csv, t.column_names)
            THEN [err |-> "ValueError", missing |-> <<>>, err_path |-> output_path,
                  results |-> <<>>, output_dir |-> output_dir]
            ELSE WriteTables(tables, i + 1,
                             [output_dir EXCEPT !.files[output_path] =
                                 WriteCsv(csv, append, t.column_names, t.num_rows)],
                             append, Append(results, t))

\* extract_cdf_to_csv(cdf_file_path, output_dir, automerge=..., append=...,
\* variable_names=..., max_records=...); variable_names = {} is None or []
ExtractCdfToDir(all_variables, output_dir, automerge, append, variable_names, max_records) ==
    LET found_set == {all_variables[i].name : i \in DOMAIN all_variables} \cap variable_names
        missing == variable_names \ found_set
        variables == IF variable_names # {}
                     THEN SelectSeq(all_variables, LAMBDA v : v.name \in variable_names)
                     ELSE all_variables
    IN IF variable_names # {} /\ missing # {}
       THEN [err |-> "ValueError", missing |-> Sorted(missing), err_path |-> NULL,
             results |-> <<>>, output_dir |-> output_dir]
       ELSE IF variables = <<>>
       THEN [err |-> NULL, missing |-> <<>>, err_path |-> NULL, results |-> <<>>,
             output_dir |-> output_dir]
       ELSE WriteTables(Tables(variables, automerge, max_records), 1,
                        [output_dir EXCEPT !.exists = TRUE], append, <<>>)

\* ---------------------------------------------------------------------------
\* SyncConfig.add_or_update_job and the prepare command on one file
\* ---------------------------------------------------------------------------
\* SyncConfig.jobs: for every job name the job under that name, if any; a job
\* is its name and what it holds (table, mappings, indexes), taken as a whole
JobNames == {"j", "k"}
JobBodies == {"v1", "v2"}
NamedJob(name, body) == [name |-> name, body |-> body]
NoEntry == [present |-> FALSE, body |-> "none"]
Entry(job) == [present |-> TRUE, body |-> job.body]
NoJobs == [n \in JobNames |-> NoEntry]

\* variant: force is taken as given
AddOrUpdateJobMutForced(jobs, job, force) ==
    [err |-> NULL, jobs |-> [jobs EXCEPT ![job.name] = Entry(job)]]
\* SyncConfig.add_or_update_job
AddOrUpdateJob(jobs, job, force) ==
    IF jobs[job.name].present /\ ~force
    THEN [err |-> "ValueError", jobs |-> jobs]
    ELSE [err |-> NULL, jobs |-> [jobs EXCEPT ![job.name] = Entry(job)]]

\* The config file: whether it exists, and the jobs it holds.
NoConfigFile == [exists |-> FALSE, jobs |-> NoJobs]

\* prepare FILE --config CONFIG --job NAME [--force] on one file: input is the
\* condition of the file (ok; invalid: no columns found; unreadable: the
\* analysis raises), body what the analysis of the file gives. saved: the
\* command called save_to_yaml.
PrepareOne(config_file, input, job_name, body, force) ==
    LET sync_config == IF config_file.exists THEN config_file.jobs ELSE NoJobs
        r == AddOrUpdateJob(sync_config, NamedJob(job_name, body), force)
    IN IF input = "unreadable"
       THEN [err |-> "Abort", saved |-> FALSE, config_file |-> config_file]
       ELSE IF input = "invalid"
       THEN [err |-> NULL, saved |-> FALSE, config_file |-> config_file]
       ELSE IF r.err # NULL
       THEN [err |-> "Abort", saved |-> FALSE, config_file |-> config_file]
       ELSE [err |-> NULL, saved |-> TRUE,
             config_file |-> [exists |-> TRUE, jobs |-> r.jobs]]

\* ---------------------------------------------------------------------------
\* Type detection (src/src/data_sync/type_detection.py)
\* ---------------------------------------------------------------------------
\* A value is a string, kept as its runs of equal characters: "1" stands for a
\* digit, "x" for a letter, and " ", "-", "/", ":", ".", "T" for themselves.
\* "2024-01-15" is <<Run("1", 4), Run("-", 1), Run("1", 2), Run("-", 1), Run("1", 2)>>.
Run(c, n) == [c |-> c, n |-> n]
Digits(n) == Run("1", n)
RECURSIVE StrLen(_)
StrLen(value) == IF value = <<>> THEN 0 ELSE Head(value).n + StrLen(Tail(value))
\* str.strip: a value has at most one run of blanks at each end
Strip(value) ==
    LET from == IF value # <<>> /\ value[1].c = " " THEN 2 ELSE 1
        to == IF Len(value) >= from /\ value[Len(value)].c = " "
              THEN Len(value) - 1 ELSE Len(value)
    IN SubSeq(value, from, to)
\* the value starts with the runs of pattern; a run of the pattern with n = 0
\* stands for \s+, one or more of the character
MatchesAt(value, pattern) ==
    /\ Len(value) >= Len(pattern)
    /\ \A i \in DOMAIN pattern :
          /\ value[i].c = pattern[i].c
          /\ IF pattern[i].n = 0 THEN TRUE
             ELSE IF i = Len(pattern) /\ Len(value) = Len(pattern)
             THEN value[i].n >= pattern[i].n
             ELSE value[i].n = pattern[i].n

\* _is_integer: int(value) takes blanks around an optional sign and digits
IsInteger(value) ==
    LET v == Strip(value)
    IN \/ Len(v) = 1 /\ v[1].c = "1"
       \/ Len(v) = 2 /\ v[1] = Run("-", 1) /\ v[2].c = "1"

\* _is_float: float(value) takes blanks around an optional sign and digits
\* with at most one point
IsFloat(value) ==
    LET v == Strip(value)
        u == IF v # <<>> /\ v[1] = Run("-", 1) THEN Tail(v) ELSE v
        chars == [i \in DOMAIN u |-> u[i].c]
    IN /\ chars \in {<<"1">>, <<"1", ".">>, <<"1", ".", "1">>, <<".", "1">>}
       /\ \A i \in DOMAIN u : u[i].c = "." => u[i].n = 1

\* _is_date: one of the four patterns, anchored at both ends
DatePatterns ==
    {<<Digits(4), Run("-", 1), Digits(2), Run("-", 1), Digits(2)>>,
     <<Digits(4), Run("/", 1), Digits(2), Run("/", 1), Digits(2)>>,
     <<Digits(2), Run("-", 1), Digits(2), Run("-", 1), Digits(4)>>,
     <<Digits(2), Run("/", 1), Digits(2), Run("/", 1), Digits(4)>>}
IsDate(value) == Strip(value) \in DatePatterns

\* _is_datetime: one of the three patterns, anchored at the start only
DatetimePatterns ==
    {<<Digits(4), Run("-", 1), Digits(2), Run("-", 1), Digits(2), Run(" ", 0),
       Digits(2), Run(":", 1), Digits(2), Run(":", 1), Digits(2)>>,
     <<Digits(4), Run("-", 1), Digits(2), Run("-", 1), Digits(2), Run("T", 1),
       Digits(2), Run(":", 1), Digits(2), Run(":", 1), Digits(2)>>,
     <<Digits(2), Run("/", 1), Digits(2), Run("/", 1), Digits(4), Run(" ", 0),
       Digits(2), Run(":", 1), Digits(2), Run(":", 1), Digits(2)>>}
IsDatetime(value) == \E pattern \in DatetimePatterns : MatchesAt(Strip(value), pattern)

\* values[:1000] and the longest varchar
SampleSize == 1000
MaxVarcharLength == 255

\* the detected type: a name, and N for varchar(N)
Detected(name, n) == [name |-> name, n |-> n]

\* variant: a value of 255 characters is text already
DetectColumnTypeMutStrict(values) ==
    LET non_empty == SelectSeq(values, LAMBDA v : Strip(v) # <<>>)
        all(P(_)) == \A i \in DOMAIN non_empty : P(non_empty[i])
        max_length == Max({StrLen(non_empty[i]) : i \in DOMAIN non_empty})
    IN IF non_empty = <<>> THEN Detected("text", 0)
       ELSE IF all(IsInteger) THEN Detected("integer", 0)
       ELSE IF all(IsFloat) THEN Detected("float", 0)
       ELSE IF all(IsDate) THEN Detected("date", 0)
       ELSE IF all(IsDatetime) THEN Detected("datetime", 0)
       ELSE IF max_length < MaxVarcharLength THEN Detected("varchar", max_length)
       ELSE Detected("text", 0)
\* detect_column_type
DetectColumnType(values) ==
    LET sample == SubSeq(values, 1, IF Len(values) < SampleSize THEN Len(values) ELSE SampleSize)
        non_empty == SelectSeq(sample, LAMBDA v : Strip(v) # <<>>)
        all(P(_)) == \A i \in DOMAIN non_empty : P(non_empty[i])
        max_length == Max({StrLen(non_empty[i]) : i \in DOMAIN non_empty})
    IN IF values = <<>> THEN Detected("text", 0)
       ELSE IF non_empty = <<>> THEN Detected("text", 0)
       ELSE IF all(IsInteger) THEN Detected("integer", 0)
       ELSE IF all(IsFloat) THEN Detected("float", 0)
       ELSE IF all(IsDate) THEN Detected("date", 0)
       ELSE IF all(IsDatetime) THEN Detected("datetime", 0)
       ELSE IF max_length <= MaxVarcharLength THEN Detected("varchar", max_length)
       ELSE Detected("text", 0)

\* ---------------------------------------------------------------------------
\* The jobs and files the model runs
\* ---------------------------------------------------------------------------
IdMapping == ColumnMapping("id", "id", NULL)
DateMapping == [db_column |-> "sync_date"]

\* id and one renamed-to-itself column
JobPlain == SyncJob(IdMapping, <<ColumnMapping("val", "val", NULL)>>, NoDateMapping)
\* the same with a filename-derived date column
JobDated == SyncJob(IdMapping, <<ColumnMapping("val", "val", NULL)>>, DateMapping)
\* no explicit columns: mirror the CSV
JobMirror == SyncJob(IdMapping, <<>>, NoDateMapping)
\* an evolved schema: an upper-case destination and a typed column
JobWide == SyncJob(IdMapping,
                   <<ColumnMapping("val", "VAL", NULL), ColumnMapping("val", "num", "integer")>>,
                   DateMapping)

SyncDates == Dates \cup {NULL}

CsvRows(header, ids, vals) ==
    {r \in [Range(header) -> ids \cup vals] :
        \A c \in Range(header) : r[c] \in (IF c = "id" THEN ids ELSE vals)}

\* a single id and three filename columns, two of them delete keys; no
\* explicit columns, so the CSV is mirrored
JobMission ==
    SyncJobKeys(<<IdMapping>>, <<>>,
                <<FilenameColumnMapping("mission", "mission_name", NULL, TRUE),
                  FilenameColumnMapping("date", "observation_date", "date", TRUE),
                  FilenameColumnMapping("version", "file_version", NULL, FALSE)>>)

Missions == {"m", "n"}
\* what extract_values_from_filename returned for the file's name
MissionFilenameValues ==
    {fv \in [{"mission", "date", "version"} -> Missions \cup Dates \cup {"v1"}] :
        /\ fv["mission"] \in Missions /\ fv["date"] \in Dates /\ fv["version"] = "v1"
        \* the second mission has files of the first date only
        /\ fv["mission"] = "n" => fv["date"] = "d1"}

MaxFileRows == 3
MissionIds == <<"1", "2", "3", "4">>
\* the files of up to MaxFileRows rows with distinct ids, in ascending order
MissionFiles ==
    {[i \in DOMAIN ids |-> [id |-> ids[i], val |-> "7"]] :
        ids \in {SelectSeq(MissionIds, LAMBDA x : x \in S) :
                    S \in {T \in SUBSET Range(MissionIds) : Cardinality(T) <= MaxFileRows}}}

\* a compound id (store, product), one mapped column and the date of the file
\* name as the only delete key
JobInventory ==
    SyncJobKeys(<<ColumnMapping("store_id", "store_id", NULL),
                  ColumnMapping("product_id", "product_id", NULL)>>,
                <<ColumnMapping("quantity", "quantity", NULL)>>,
                <<FilenameColumnMapping("date", "sync_date", NULL, TRUE)>>)

InventoryFilenameValues == {[n \in {"date"} |-> d] : d \in Dates}

\* two stores with two products each
InventoryKeys ==
    <<[store_id |-> "1", product_id |-> "A"], [store_id |-> "1", product_id |-> "B"],
      [store_id |-> "3", product_id |-> "A"], [store_id |-> "3", product_id |-> "B"]>>
\* the files of up to MaxFileRows rows with distinct (store, product)
InventoryFiles ==
    {[i \in DOMAIN keys |-> [store_id |-> keys[i].store_id,
                             product_id |-> keys[i].product_id, quantity |-> "7"]] :
        keys \in {SelectSeq(InventoryKeys, LAMBDA k : k \in S) :
                     S \in {T \in SUBSET Range(InventoryKeys) :
                               Cardinality(T) <= MaxFileRows}}}

\* the characters of file names, and the values put into placeholders
Chars == {"a", "_"}
MaxValueLen == 2
NameValues == UNION {[1..n -> Chars] : n \in 1..MaxValueLen}
\* the templates of up to MaxTemplateLen tokens with one or two placeholders,
\* no placeholder twice
MaxTemplateLen == 3
Tokens == {Lit("_"), Lit("a"), Ph("x"), Ph("y")}
Templates ==
    {t \in UNION {[1..n -> Tokens] : n \in 1..MaxTemplateLen} :
        /\ Placeholders(t) # {}
        /\ \A i, j \in DOMAIN t : (t[i].kind = "ph" /\ t[i] = t[j]) => i = j}

\* CDF files: up to MaxVariables variables of 1 to MaxRecords records, scalars
\* and arrays of width 2
MaxVariables == 3
MaxRecords == 3
VariableNames == <<"a", "b", "c">>
ArraySizes == {1, 2}

\* Extraction into a directory: files of up to MaxDirVariables variables of 1
\* to MaxDirRecords records, the selections of variables below, and no call
\* once a file of the directory has more than MaxLines lines
MaxDirVariables == 2
MaxDirRecords == 2
MaxLines == 3
Selections == {{}, {"a"}, {"a", "c"}, {"b", "c"}}
\* a file written by another program: a header of its own and one row
ForeignCsv ==
    [present |-> TRUE,
     lines |-> <<HeaderRow(<<Name("c", <<>>)>>), DataRow(<<Name("c", <<>>)>>, 1)>>]

\* Type names: every word the backends know, "varchar" and a word they do not
\* know, alone or followed by "(10)" or by "x", in lower or upper case, bare or
\* with a blank on both sides; None; the empty text
TypeWords == {"integer", "int", "float", "double", "date", "datetime", "timestamp",
              "text", "string", "varchar", "blob"}
TypeTails == {<<>>, <<"(10)">>, <<"x">>}
TypeNames ==
    {NoneType, TypeName(<<>>)} \cup
    {TypeName((IF pad THEN <<Blank>> ELSE <<>>)
                 \o <<Piece(w, up)>> \o [i \in DOMAIN tail |-> Piece(tail[i], up)]
                 \o (IF pad THEN <<Blank>> ELSE <<>>)) :
        w \in TypeWords, tail \in TypeTails, up \in BOOLEAN, pad \in BOOLEAN}

\* Column samples: up to MaxSample values out of "", " ", "1", "-1", " 1 ",
\* "1.1", "2024-01-15", "2024-01-15 10:30:00", "x", and a word of 255 and one
\* of 256 letters
MaxSample == 2
SampleValues ==
    {<<>>, <<Run(" ", 1)>>, <<Digits(1)>>, <<Run("-", 1), Digits(1)>>,
     <<Run(" ", 1), Digits(1), Run(" ", 1)>>, <<Digits(1), Run(".", 1), Digits(1)>>,
     <<Digits(4), Run("-", 1), Digits(2), Run("-", 1), Digits(2)>>,
     <<Digits(4), Run("-", 1), Digits(2), Run("-", 1), Digits(2), Run(" ", 1),
       Digits(2), Run(":", 1), Digits(2), Run(":", 1), Digits(2)>>,
     <<Run("x", 1)>>, <<Run("x", MaxVarcharLength)>>, <<Run("x", MaxVarcharLength + 1)>>}
Samples == UNION {[1..n -> SampleValues] : n \in 0..MaxSample}

\* The temporary directory of the sync command on a CDF input: whether it
\* exists, and the CSV files in it (numbered in the order they are written).
NoTempDir == [exists |-> FALSE, files |-> {}]
\* What extract_cdf_to_csv did in the temporary directory: the files it wrote,
\* and whether it raised (while reading the CDF file, or in the work on the
\* table after the last file it wrote) or returned.
Extraction(written, raised) == [written |-> 1..written, raised |-> raised]

\* Extractions of the sync command: up to MaxTables CSV files written
MaxTables == 2
Extractions == {Extraction(written, raised) : written \in 0..MaxTables, raised \in BOOLEAN}

\* Lists of column names: up to MaxNames names out of a, a_1, a_1_1 and b
MaxNames == 4
ColumnNames == {Name("a", <<>>), Name("a", <<1>>), Name("a", <<1, 1>>), Name("b", <<>>)}
ColumnNameLists == UNION {[1..n -> ColumnNames] : n \in 0..MaxNames}

\* ---------------------------------------------------------------------------
\* State machine
\* ---------------------------------------------------------------------------
NoJob == SyncJob(ColumnMapping(NULL, NULL, NULL), <<>>, NoDateMapping)

\* op: the call; job, sync_date: its arguments; err .. cleaned: what
\* SyncCsvFile reports; summary: what the dry run returned;
\* filename_values: the values the file name gave a sync with filename columns;
\* twin, twin_err, twin_deleted: the table the other backend holds after the
\* same calls with the same arguments, and what its last call raised and returned;
\* template, given, extracted: the template and the values a file name was made
\* of, and what extract_values_from_filename returned for that name;
\* cdf: the input file of the sync command was a CDF file;
\* inputs: the condition of each input file of a command; exit_code: the exit
\* code of the command;
\* cdf_variables: the variables of the CDF file; variable_names, max_records,
\* results: the arguments of extract_cdf_to_csv and what it returned;
\* column_names, unique_names: the argument of _make_unique_column_names and
\* what it returned;
\* data_type, sql_type: the argument of map_data_type and what it returned;
\* values, detected: the argument of detect_column_type and what it returned;
\* extraction, temp_dir: what the extraction of the sync command did, and the
\* temporary directory when the command has ended;
\* jobs, pre_jobs: the jobs of the SyncConfig in memory after and before the
\* call; config_file, pre_config_file: the config file after and before;
\* new_job, force, input: the arguments of add_or_update_job and of prepare;
\* saved: prepare wrote the config file;
\* output_dir: the output directory of extract_cdf_to_csv; pre_dir: the
\* directory before the call; automerge, append: its arguments; missing,
\* err_path: the names and the path in the message of what it raised;
\* pre: the table before the call; retried: the call before it was an
\* interrupted sync of the same file with the same arguments;
\* again: the call before it was a successful sync of the same file with the
\* same arguments; after_dry: the call before it was a dry run of the same
\* file with the same arguments; edited: rows were removed from the
\* file since the call.
NoCall ==
    [op |-> "none", job |-> NoJob, sync_date |-> NULL, err |-> NULL,
     rows_synced |-> 0, synced_ids |-> {},
     deleted |-> 0, cleaned |-> FALSE, again |-> FALSE,
     after_dry |-> FALSE, edited |-> FALSE, summary |-> NoSummary,
     pre |-> NoTable, retried |-> FALSE, filename_values |-> <<>>,
     twin |-> NoTable, twin_err |-> NULL, twin_deleted |-> 0,
     template |-> <<>>, given |-> <<>>, extracted |-> NoMatch,
     cdf |-> FALSE, inputs |-> <<>>, exit_code |-> 0,
     cdf_variables |-> <<>>, variable_names |-> {}, max_records |-> NoMaxRecords,
     results |-> <<>>, column_names |-> <<>>, unique_names |-> <<>>,
     output_dir |-> NoDir, pre_dir |-> NoDir, automerge |-> TRUE, append |-> FALSE,
     missing |-> <<>>, err_path |-> NULL, data_type |-> NoneType, sql_type |-> <<>>,
     values |-> <<>>, detected |-> Detected("none", 0),
     jobs |-> NoJobs, pre_jobs |-> NoJobs, config_file |-> NoConfigFile,
     pre_config_file |-> NoConfigFile, new_job |-> NamedJob("none", "none"),
     force |-> FALSE, input |-> "none", saved |-> FALSE,
     extraction |-> [written |-> {}, raised |-> FALSE], temp_dir |-> NoTempDir]

Init ==
    /\ backend \in Backends
    /\ db = NoTable
    /\ file = NoFile
    /\ last = NoCall

\* the user writes a new CSV file (header only)
CreateFile(header) ==
    /\ file' = [exists |-> TRUE, header |-> header, rows |-> <<>>]
    /\ last' = NoCall
    /\ UNCHANGED <<backend, db>>

\* ... adds a data row to it
AppendRow(row) ==
    /\ file.exists
    /\ file.header # <<>>
    /\ Len(file.rows) < MaxRows
    /\ file' = [file EXCEPT !.rows = Append(file.rows, row)]
    /\ last' = NoCall
    /\ UNCHANGED <<backend, db>>

\* ... takes a data row out of the file just synced (the corrected version of
\* a file already ingested)
DropRow(i) ==
    /\ file.exists
    /\ last.op = "sync"
    /\ i \in DOMAIN file.rows
    /\ file' = [file EXCEPT !.rows = SubSeq(file.rows, 1, i - 1)
                                     \o SubSeq(file.rows, i + 1, Len(file.rows))]
    /\ last' = [last EXCEPT !.edited = TRUE]
    /\ UNCHANGED <<backend, db>>

\* ... or removes it
DeleteFile ==
    /\ file.exists
    /\ file' = NoFile
    /\ last' = NoCall
    /\ UNCHANGED <<backend, db>>

\* sync_csv_to_postgres(csv_path, job, db_url, sync_date)
Sync(job, sync_date) ==
    LET r == SyncCsvFile(backend, db, file, job, sync_date)
        same == last.job = job /\ last.sync_date = sync_date /\ ~last.edited
    IN /\ db' = r.db
       /\ last' = [op |-> "sync", job |-> job, sync_date |-> sync_date,
                   err |-> r.err, rows_synced |-> r.rows_synced,
                   synced_ids |-> r.synced_ids,
                   deleted |-> r.deleted, cleaned |-> r.cleaned,
                   again |-> (last.op = "sync" /\ same /\ last.err = NULL),
                   after_dry |-> (last.op = "dry_run" /\ same),
                   edited |-> FALSE, summary |-> NoSummary,
                   pre |-> db,
                   retried |-> (last.op = "sync_interrupted" /\ same)]
       /\ UNCHANGED <<backend, file>>

\* sync_csv_to_postgres(csv_path, job, db_url, sync_date) interrupted in the
\* upsert of row k
SyncInterrupted(job, sync_date, k) ==
    LET r == SyncCsvFileUntil(backend, db, file, job, sync_date, k)
    IN /\ file.exists
       /\ k \in DOMAIN file.rows
       /\ db' = r.db
       /\ last' = [NoCall EXCEPT !.op = "sync_interrupted", !.job = job,
                                 !.sync_date = sync_date, !.err = r.err,
                                 !.rows_synced = r.rows_synced,
                                 !.synced_ids = r.synced_ids, !.pre = db]
       /\ UNCHANGED <<backend, file>>

\* sync_csv_to_postgres_dry_run(csv_path, job, db_url, sync_date)
\* variant: the dry run applies what it computes
DryRunMutApplies(job, sync_date) ==
    LET r == SyncDryRun(backend, db, file, job, sync_date)
    IN /\ last' = [NoCall EXCEPT !.op = "dry_run", !.job = job, !.sync_date = sync_date,
                                 !.err = r.err, !.summary = r.summary]
       /\ db' = SyncCsvFile(backend, db, file, job, sync_date).db
       /\ UNCHANGED <<backend, file>>
DryRun(job, sync_date) ==
    LET r == SyncDryRun(backend, db, file, job, sync_date)
    IN /\ last' = [NoCall EXCEPT !.op = "dry_run", !.job = job, !.sync_date = sync_date,
                                 !.err = r.err, !.summary = r.summary]
       /\ UNCHANGED <<backend, db, file>>

\* db.create_table_if_not_exists(columns, primary_keys) called on its own
CreateTableCall(columns, primary_keys) ==
    LET r == CreateTableIfNotExists(backend, db, columns, primary_keys)
    IN /\ db' = r.db
       /\ last' = [NoCall EXCEPT !.op = "create_table", !.err = r.err, !.pre = db]
       /\ UNCHANGED <<backend, file>>

\* db.upsert_row(conflict_columns, row_data) called on its own
UpsertRowCall(conflict_columns, row_data) ==
    LET r == UpsertRow(backend, db, conflict_columns, row_data)
    IN /\ db' = r.db
       /\ last' = [NoCall EXCEPT !.op = "upsert_row", !.err = r.err, !.pre = db]
       /\ UNCHANGED <<backend, file>>

\* db.delete_stale_records(id_column, date_column, sync_date, current_ids)
\* called on its own
DeleteStaleCall(id_column, date_column, sync_date, current_ids) ==
    LET r == DeleteStaleRecords(backend, db, id_column, date_column, sync_date, current_ids)
    IN /\ db' = r.db
       /\ last' = [NoCall EXCEPT !.op = "delete_stale_records", !.err = r.err, !.pre = db,
                                 !.deleted = r.deleted]
       /\ UNCHANGED <<backend, file>>

\* the user writes a whole CSV file at once
WriteFile(header, rows) ==
    /\ file' = [exists |-> TRUE, header |-> header, rows |-> rows]
    /\ last' = NoCall
    /\ UNCHANGED <<backend, db>>

\* sync_csv_to_postgres(csv_path, job, db_url, filename_values)
SyncKeys(job, filename_values) ==
    LET r == SyncCsvFileKeys(backend, db, file, job, filename_values)
    IN /\ db' = r.db
       /\ last' = [NoCall EXCEPT !.op = "sync_keys", !.err = r.err,
                                 !.rows_synced = r.rows_synced,
                                 !.synced_ids = r.synced_ids,
                                 !.deleted = r.deleted, !.cleaned = r.cleaned,
                                 !.filename_values = filename_values,
                                 !.pre = db]
       /\ UNCHANGED <<backend, file>>

\* the backend that is not b
Other(b) == IF b = "postgres" THEN "sqlite" ELSE "postgres"

\* one call made on both backends with the same arguments, each on its own table
CreateTableBoth(columns, primary_keys) ==
    LET r == CreateTableIfNotExists(backend, db, columns, primary_keys)
        o == CreateTableIfNotExists(Other(backend), last.twin, columns, primary_keys)
    IN /\ db' = r.db
       /\ last' = [NoCall EXCEPT !.op = "create_table_if_not_exists", !.err = r.err,
                                 !.pre = db, !.twin = o.db, !.twin_err = o.err]
       /\ UNCHANGED <<backend, file>>

AddColumnBoth(column_name, column_type) ==
    LET r == AddColumn(backend, db, column_name, column_type)
        o == AddColumn(Other(backend), last.twin, column_name, column_type)
    IN /\ db' = r.db
       /\ last' = [NoCall EXCEPT !.op = "add_column", !.err = r.err,
                                 !.pre = db, !.twin = o.db, !.twin_err = o.err]
       /\ UNCHANGED <<backend, file>>

UpsertRowBoth(conflict_columns, row_data) ==
    LET r == UpsertRow(backend, db, conflict_columns, row_data)
        o == UpsertRow(Other(backend), last.twin, conflict_columns, row_data)
    IN /\ db' = r.db
       /\ last' = [NoCall EXCEPT !.op = "upsert_row", !.err = r.err,
                                 !.pre = db, !.twin = o.db, !.twin_err = o.err]
       /\ UNCHANGED <<backend, file>>

DeleteStaleBoth(id_column, date_column, sync_date, current_ids) ==
    LET r == DeleteStaleRecords(backend, db, id_column, date_column, sync_date, current_ids)
        o == DeleteStaleRecords(Other(backend), last.twin, id_column, date_column,
                                sync_date, current_ids)
    IN /\ db' = r.db
       /\ last' = [NoCall EXCEPT !.op = "delete_stale_records", !.err = r.err,
                                 !.deleted = r.deleted, !.pre = db,
                                 !.twin = o.db, !.twin_err = o.err,
                                 !.twin_deleted = o.deleted]
       /\ UNCHANGED <<backend, file>>

\* a file is named after the template with the given values, and
\* extract_values_from_filename is called on that name
ExtractCall(template, values) ==
    /\ last' = [NoCall EXCEPT !.op = "extract_values_from_filename",
                              !.template = template, !.given = values,
                              !.extracted =
                                 ExtractValuesFromFilename(template,
                                                           Substitute(template, values, 1))]
    /\ UNCHANGED <<backend, db, file>>

\* "For CSV files, filename extraction failure is an error"; for a CDF input
\* the command goes on without filename values
\* variant: no input is refused
AbortsOnNoMatchMutNever(is_cdf, filename_values) == FALSE
AbortsOnNoMatch(is_cdf, filename_values) == DOMAIN filename_values = {} /\ ~is_cdf

\* the sync command on an input file for a job with filename_to_column.
\* is_cdf: the input has the suffix .cdf, and then file is the CSV extracted
\* from it; filename_values: what extract_values_from_filename returns for the
\* name of the CSV, <<>> when the name does not match. Every exception ends
\* the command with click.Abort.
SyncCommand(is_cdf, job, filename_values) ==
    IF AbortsOnNoMatch(is_cdf, filename_values)
    THEN /\ last' = [NoCall EXCEPT !.op = "sync_command", !.err = "Abort",
                                   !.exit_code = 1,
                                   !.cdf = is_cdf, !.pre = db]
         /\ UNCHANGED <<backend, db, file>>
    ELSE LET r == SyncCsvFileKeys(backend, db, file, job, filename_values)
         IN /\ db' = r.db
            /\ last' = [NoCall EXCEPT !.op = "sync_command",
                                      !.err = IF r.err = NULL THEN NULL ELSE "Abort",
                                      !.exit_code = IF r.err = NULL THEN 0 ELSE 1,
                                      !.rows_synced = r.rows_synced,
                                      !.synced_ids = r.synced_ids,
                                      !.deleted = r.deleted, !.cleaned = r.cleaned,
                                      !.filename_values = filename_values,
                                      !.cdf = is_cdf, !.pre = db]
            /\ UNCHANGED <<backend, file>>

\* _extract_cdf_and_find_csv: the paths of the results, or ValueError when
\* the extraction raised or gave no result
ExtractCdfAndFindCsv(extraction) ==
    IF extraction.raised \/ extraction.written = {}
    THEN [err |-> "ValueError", csv_files |-> {}]
    ELSE [err |-> NULL, csv_files |-> extraction.written]

\* the finally block of sync: unlink every path of temp_csv_files, then
\* temp_dir.rmdir(), which fails on a directory that is not empty; the
\* failure is printed as a warning
CleanUp(temp_dir, temp_csv_files) ==
    LET files == temp_dir.files \ temp_csv_files
    IN IF temp_dir.exists /\ files = {} THEN NoTempDir
       ELSE [exists |-> temp_dir.exists, files |-> files]

\* the sync command on a CDF input for a job with filename_to_column:
\* tempfile.mkdtemp, the extraction, the sync of the first CSV (file is that
\* CSV), and the finally block. filename_values as in SyncCommand.
SyncCdfCommand(extraction, job, filename_values) ==
    LET made == [exists |-> TRUE, files |-> extraction.written]
        e == ExtractCdfAndFindCsv(extraction)
        r == SyncCsvFileKeys(backend, db, file, job, filename_values)
    IN IF e.err # NULL
       THEN /\ last' = [NoCall EXCEPT !.op = "sync_cdf_command", !.err = "Abort",
                                      !.exit_code = 1, !.cdf = TRUE, !.pre = db,
                                      !.extraction = extraction,
                                      !.temp_dir = CleanUp(made, {})]
            /\ UNCHANGED <<backend, db, file>>
       ELSE /\ file.exists
            /\ db' = r.db
            /\ last' = [NoCall EXCEPT !.op = "sync_cdf_command",
                                      !.err = IF r.err = NULL THEN NULL ELSE "Abort",
                                      !.exit_code = IF r.err = NULL THEN 0 ELSE 1,
                                      !.rows_synced = r.rows_synced,
                                      !.synced_ids = r.synced_ids,
                                      !.deleted = r.deleted, !.cleaned = r.cleaned,
                                      !.filename_values = filename_values,
                                      !.cdf = TRUE, !.pre = db,
                                      !.extraction = extraction,
                                      !.temp_dir = CleanUp(made, e.csv_files)]
            /\ UNCHANGED <<backend, file>>

\* The condition of an input file of a command: "ok"; "invalid": the command's
\* work on it raises ValueError (extract: the output file exists or a variable
\* is not found; prepare: the job exists and --force is not given; inspect: the
\* CSV cannot be parsed); "unreadable": it raises another exception (OSError).
\* The tables, CSV files and configuration the commands write are outside the
\* state of the model.
\* extract: both except clauses of the per-file try end in continue, and the
\* command ends with "Extraction complete"
ExtractExitCode(inputs) == 0

\* inspect: inspect_csv and inspect_cdf raise click.ClickException, which the
\* command turns into click.Abort
InspectExitCode(inputs) ==
    IF \E i \in DOMAIN inputs : inputs[i] # "ok" THEN 1 ELSE 0

\* prepare: the ValueError of add_or_update_job aborts only when the command
\* has a single input file; any other exception reaches the outer handler
PrepareExitCode(inputs) ==
    IF \/ \E i \in DOMAIN inputs : inputs[i] = "unreadable"
       \/ Len(inputs) = 1 /\ inputs[1] = "invalid"
    THEN 1 ELSE 0

ExtractCommand(inputs) ==
    /\ last' = [NoCall EXCEPT !.op = "extract", !.inputs = inputs,
                              !.exit_code = ExtractExitCode(inputs)]
    /\ UNCHANGED <<backend, db, file>>

InspectCommand(inputs) ==
    /\ last' = [NoCall EXCEPT !.op = "inspect", !.inputs = inputs,
                              !.exit_code = InspectExitCode(inputs)]
    /\ UNCHANGED <<backend, db, file>>

PrepareCommand(inputs) ==
    /\ last' = [NoCall EXCEPT !.op = "prepare", !.inputs = inputs,
                              !.exit_code = PrepareExitCode(inputs)]
    /\ UNCHANGED <<backend, db, file>>

\* a CDF file is written with one more variable
CdfAddVariable(num_records, array_size) ==
    /\ Len(last.cdf_variables) < MaxVariables
    /\ last' = [NoCall EXCEPT !.cdf_variables =
                   Append(last.cdf_variables,
                          CDFVariable(VariableNames[Len(last.cdf_variables) + 1],
                                      num_records, array_size))]
    /\ UNCHANGED <<backend, db, file>>

ExtractCdfCall(variable_names, max_records) ==
    LET r == ExtractCdfToCsv(last.cdf_variables, variable_names, max_records)
    IN /\ last' = [NoCall EXCEPT !.op = "extract_cdf_to_csv", !.err = r.err,
                                 !.cdf_variables = last.cdf_variables,
                                 !.variable_names = variable_names,
                                 !.max_records = max_records,
                                 !.results = r.results]
       /\ UNCHANGED <<backend, db, file>>

\* a CDF file is written with one more variable; the output directory stays
CdfDirAddVariable(num_records, array_size) ==
    /\ Len(last.cdf_variables) < MaxDirVariables
    /\ last' = [NoCall EXCEPT !.cdf_variables =
                   Append(last.cdf_variables,
                          CDFVariable(VariableNames[Len(last.cdf_variables) + 1],
                                      num_records, array_size)),
                              !.output_dir = last.output_dir,
                              !.pre_dir = last.output_dir]
    /\ UNCHANGED <<backend, db, file>>

\* another program leaves a file in the output directory
WriteForeignCsv(filename) ==
    /\ ~last.output_dir.files[filename].present
    /\ last' = [NoCall EXCEPT !.cdf_variables = last.cdf_variables,
                              !.output_dir = [last.output_dir EXCEPT
                                                 !.exists = TRUE,
                                                 !.files[filename] = ForeignCsv],
                              !.pre_dir = last.output_dir]
    /\ UNCHANGED <<backend, db, file>>

ExtractCdfDirCall(automerge, append, variable_names, max_records) ==
    LET r == ExtractCdfToDir(last.cdf_variables, last.output_dir, automerge, append,
                             variable_names, max_records)
    IN /\ \A f \in FileNames : Len(last.output_dir.files[f].lines) <= MaxLines
       /\ last' = [NoCall EXCEPT !.op = "extract_cdf_to_dir", !.err = r.err,
                                 !.cdf_variables = last.cdf_variables,
                                 !.variable_names = variable_names,
                                 !.max_records = max_records,
                                 !.automerge = automerge, !.append = append,
                                 !.results = r.results,
                                 !.missing = r.missing, !.err_path = r.err_path,
                                 !.pre_dir = last.output_dir,
                                 !.output_dir = r.output_dir]
       /\ UNCHANGED <<backend, db, file>>

MapDataTypeCall(data_type) ==
    /\ last' = [NoCall EXCEPT !.op = "map_data_type", !.data_type = data_type,
                              !.sql_type = MapDataTypeText(backend, data_type)]
    /\ UNCHANGED <<backend, db, file>>

AddOrUpdateJobCall(job, force) ==
    LET r == AddOrUpdateJob(last.jobs, job, force)
    IN /\ last' = [NoCall EXCEPT !.op = "add_or_update_job", !.err = r.err,
                                 !.new_job = job, !.force = force,
                                 !.pre_jobs = last.jobs, !.jobs = r.jobs,
                                 !.config_file = last.config_file,
                                 !.pre_config_file = last.config_file]
       /\ UNCHANGED <<backend, db, file>>

PrepareOneCall(input, job_name, body, force) ==
    LET r == PrepareOne(last.config_file, input, job_name, body, force)
    IN /\ last' = [NoCall EXCEPT !.op = "prepare_one", !.err = r.err,
                                 !.new_job = NamedJob(job_name, body), !.force = force,
                                 !.input = input, !.saved = r.saved,
                                 !.jobs = last.jobs, !.pre_jobs = last.jobs,
                                 !.pre_config_file = last.config_file,
                                 !.config_file = r.config_file]
       /\ UNCHANGED <<backend, db, file>>

DetectColumnTypeCall(values) ==
    /\ last' = [NoCall EXCEPT !.op = "detect_column_type", !.values = values,
                              !.detected = DetectColumnType(values)]
    /\ UNCHANGED <<backend, db, file>>

MakeUniqueCall(column_names) ==
    /\ last' = [NoCall EXCEPT !.op = "make_unique_column_names",
                              !.column_names = column_names,
                              !.unique_names = MakeUniqueColumnNames(column_names)]
    /\ UNCHANGED <<backend, db, file>>

\* Sync runs: two ids, two values, a job with and one without a date column,
\* a file with and one without the mapped column.
Next ==
    \/ \E header \in {<<"id", "val">>, <<"id">>} : CreateFile(header)
    \/ \E row \in CsvRows(file.header, Ids, Vals) : AppendRow(row)
    \/ DeleteFile
    \/ Sync(JobPlain, NULL)
    \/ \E sync_date \in SyncDates : Sync(JobDated, sync_date)

Spec == Init /\ [][Next]_vars

\* Scoped runs: three ids under two dates, through the job with a date column.
Ids3 == {"1", "2", "3"}

NextScope ==
    \/ CreateFile(<<"id", "val">>)
    \/ \E row \in CsvRows(file.header, Ids3, {"7"}) : AppendRow(row)
    \/ \E i \in 1..MaxRows : DropRow(i)
    \/ \E sync_date \in Dates : Sync(JobDated, sync_date)
    \/ \E sync_date \in Dates, current_ids \in SUBSET Ids3 :
          DeleteStaleCall("id", "sync_date", sync_date, current_ids)

SpecScope == Init /\ [][NextScope]_vars

\* Keyed runs: the job without a date column on files of two ids, and the
\* backend primitives on a table keyed by id or by the pair (id, val).
KeyedColumns == <<[name |-> "id", type |-> "TEXT"], [name |-> "val", type |-> "TEXT"],
                  [name |-> "num", type |-> "TEXT"]>>
KeyLists == {<<"id">>, <<"id", "val">>}
KeyedRows ==
    {r \in [{"id", "val", "num"} -> {"1"} \cup Vals] \cup [{"id", "val"} -> {"1"} \cup Vals] :
        r["id"] = "1" /\ \A c \in DOMAIN r \ {"id"} : r[c] \in Vals}

NextKeyed ==
    \/ CreateFile(<<"id", "val">>)
    \/ \E row \in CsvRows(file.header, Ids, Vals) : AppendRow(row)
    \/ Sync(JobPlain, NULL)
    \/ \E primary_keys \in KeyLists : CreateTableCall(KeyedColumns, primary_keys)
    \/ \E conflict_columns \in KeyLists, row_data \in KeyedRows :
          UpsertRowCall(conflict_columns, row_data)

SpecKeyed == Init /\ [][NextKeyed]_vars

\* Dry runs: each sync may be preceded by its dry run.
NextDryRun ==
    \/ \E header \in {<<"id", "val">>, <<"id">>} : CreateFile(header)
    \/ \E row \in CsvRows(file.header, Ids, {"7"}) : AppendRow(row)
    \/ \E job \in {JobPlain, JobDated}, sync_date \in SyncDates : Sync(job, sync_date)
    \/ \E job \in {JobPlain, JobDated}, sync_date \in SyncDates : DryRun(job, sync_date)

SpecDryRun == Init /\ [][NextDryRun]_vars


\* ---------------------------------------------------------------------------
\* Evolving runs: one table synced by jobs with different destination columns
\* from files with different headers.
NextSchema ==
    \/ \E header \in {<<"id", "val">>, <<"id", "num">>, <<"val">>} : CreateFile(header)
    \/ \E row \in CsvRows(file.header, {"1"}, Vals) : AppendRow(row)
    \/ \E job \in {JobPlain, JobMirror, JobWide}, sync_date \in {NULL, "d1"} :
          Sync(job, sync_date)

SpecSchema == Init /\ [][NextSchema]_vars

\* Failing runs: the job with an integer column on files whose values are not
\* all integers.
NextFailure ==
    \/ CreateFile(<<"id", "val">>)
    \/ \E row \in CsvRows(file.header, Ids, Vals) : AppendRow(row)
    \/ \E sync_date \in Dates : Sync(JobWide, sync_date)

SpecFailure == Init /\ [][NextFailure]_vars

\* Retried runs: a sync may be interrupted at any row and then run again.
NextRetry ==
    \/ CreateFile(<<"id", "val">>)
    \/ \E row \in CsvRows(file.header, Ids, Vals) : AppendRow(row)
    \/ \E sync_date \in Dates : Sync(JobDated, sync_date)
    \/ \E sync_date \in Dates, k \in 1..MaxRows : SyncInterrupted(JobDated, sync_date, k)

SpecRetry == Init /\ [][NextRetry]_vars

\* Delete keys: four ids, files of up to three of them, two missions and two
\* dates in the file name.
NextMission ==
    \/ \E rows \in MissionFiles : WriteFile(<<"id", "val">>, rows)
    \/ \E fv \in MissionFilenameValues : SyncKeys(JobMission, fv)

SpecMission == Init /\ [][NextMission]_vars

\* Compound id: two stores with two products, files of up to three rows, two
\* dates in the file name.
NextInventory ==
    \/ \E rows \in InventoryFiles : WriteFile(<<"store_id", "product_id", "quantity">>, rows)
    \/ \E fv \in InventoryFilenameValues : SyncKeys(JobInventory, fv)

SpecInventory == Init /\ [][NextInventory]_vars

\* Both backends: a table of id, val and sync_date keyed by id, a typed and an
\* upper-case column added later, rows with and without the added columns.
BothColumns ==
    <<[name |-> "id", type |-> "TEXT"], [name |-> "val", type |-> "TEXT"],
      [name |-> "sync_date", type |-> "TEXT"]>>
BothAdded == {<<"num", "INTEGER">>, <<"VAL", "TEXT">>}
BothRows ==
    {r \in UNION {[D -> Ids \cup Vals \cup Dates] :
                    D \in {{"id", "val", "sync_date"}, {"id", "num", "sync_date"}}} :
        /\ r["id"] \in Ids /\ r["sync_date"] \in Dates
        /\ "val" \in DOMAIN r => r["val"] = "7"
        /\ "num" \in DOMAIN r => r["num"] \in Vals}

NextBackends ==
    \/ CreateTableBoth(BothColumns, <<"id">>)
    \/ \E c \in BothAdded : AddColumnBoth(c[1], c[2])
    \/ \E row_data \in BothRows : UpsertRowBoth(<<"id">>, row_data)
    \/ \E sync_date \in Dates, current_ids \in SUBSET Ids :
          DeleteStaleBoth("id", "sync_date", sync_date, current_ids)

SpecBackends == Init /\ [][NextBackends]_vars

\* Templates: every template of the model with every assignment of values.
NextTemplate ==
    \E template \in Templates :
       \E values \in [Placeholders(template) -> NameValues] : ExtractCall(template, values)

SpecTemplate == Init /\ [][NextTemplate]_vars

\* The sync command: CSV and CDF inputs whose name matches the pattern of the
\* job or does not, files of up to two of three ids.
CommandFiles == {rows \in MissionFiles : Len(rows) <= MaxRows /\ \A i \in DOMAIN rows : rows[i].id # "4"}
NextCommand ==
    \/ \E rows \in CommandFiles : WriteFile(<<"id", "val">>, rows)
    \/ \E is_cdf \in BOOLEAN, fv \in MissionFilenameValues \cup {<<>>} :
          SyncCommand(is_cdf, JobMission, fv)

SpecCommand == Init /\ [][NextCommand]_vars

\* The commands: one to MaxFiles input files, each in one of three conditions;
\* the sync command on one file.
MaxFiles == 3
Conditions == {"ok", "invalid", "unreadable"}
CommandInputs == UNION {[1..n -> Conditions] : n \in 1..MaxFiles}
\* for sync: a file without rows or with the row of id 1, a name that matches
\* (m, d1) or does not match
ExitFiles == {rows \in CommandFiles : \A i \in DOMAIN rows : i = 1 /\ rows[i].id = "1"}
ExitFilenameValues ==
    {fv \in MissionFilenameValues : fv["mission"] = "m" /\ fv["date"] = "d1"} \cup {<<>>}
NextExit ==
    \/ \E inputs \in CommandInputs : ExtractCommand(inputs)
    \/ \E inputs \in CommandInputs : InspectCommand(inputs)
    \/ \E inputs \in CommandInputs : PrepareCommand(inputs)
    \/ \E rows \in ExitFiles : WriteFile(<<"id", "val">>, rows)
    \/ \E is_cdf \in BOOLEAN, fv \in ExitFilenameValues : SyncCommand(is_cdf, JobMission, fv)

SpecExit == Init /\ [][NextExit]_vars

\* CDF extraction: every file of the model, every selection of its variables
\* (and of a name it may lack), with and without a record limit.
NextCdf ==
    \/ \E num_records \in 1..MaxRecords, array_size \in ArraySizes :
          CdfAddVariable(num_records, array_size)
    \/ \E variable_names \in SUBSET Range(VariableNames),
          max_records \in {NoMaxRecords} \cup (1..(MaxRecords - 1)) :
          ExtractCdfCall(variable_names, max_records)

SpecCdf == Init /\ [][NextCdf]_vars

\* extract_cdf_to_csv into a directory that keeps its files from call to call
NextCdfDir ==
    \/ \E num_records \in 1..MaxDirRecords, array_size \in ArraySizes :
          CdfDirAddVariable(num_records, array_size)
    \/ \E filename \in {"a", "b"} : WriteForeignCsv(filename)
    \/ \E automerge \in BOOLEAN, append \in BOOLEAN, variable_names \in Selections,
          max_records \in {NoMaxRecords, 1} :
          ExtractCdfDirCall(automerge, append, variable_names, max_records)

SpecCdfDir == Init /\ [][NextCdfDir]_vars

\* map_data_type of the backend on every type name of the model
NextTypes == \E data_type \in TypeNames : MapDataTypeCall(data_type)

SpecTypes == Init /\ [][NextTypes]_vars

\* The sync command on CDF inputs: extractions that return or raise, CSV
\* files that sync or do not (no id column), names that match or do not.
NextTemp ==
    \/ \E rows \in ExitFiles : WriteFile(<<"id", "val">>, rows)
    \/ WriteFile(<<"val">>, <<>>)
    \/ \E extraction \in Extractions, fv \in ExitFilenameValues :
          SyncCdfCommand(extraction, JobMission, fv)

SpecTemp == Init /\ [][NextTemp]_vars

\* add_or_update_job on a SyncConfig in memory, and prepare on a config file
NextConfig ==
    \/ \E name \in JobNames, body \in JobBodies, force \in BOOLEAN :
          AddOrUpdateJobCall(NamedJob(name, body), force)
    \/ \E input \in Conditions, name \in JobNames, body \in JobBodies, force \in BOOLEAN :
          PrepareOneCall(input, name, body, force)

SpecConfig == Init /\ [][NextConfig]_vars

\* detect_column_type on every sample of the model
NextDetect == \E values \in Samples : DetectColumnTypeCall(values)

SpecDetect == Init /\ [][NextDetect]_vars

\* _make_unique_column_names on every list of the model
NextUnique == \E column_names \in ColumnNameLists : MakeUniqueCall(column_names)

SpecUnique == Init /\ [][NextUnique]_vars

\* ---------------------------------------------------------------------------
\* Properties
\* ---------------------------------------------------------------------------
HasColumn(t, c) == c \in DOMAIN t.cols
IdsOf(rows) == {r["id"] : r \in rows}
\* the rows of the table whose scope column holds S
Scoped(t, S) == IF HasColumn(t, "sync_date") THEN {r \in t.rows : r["sync_date"] = S} ELSE {}
\* the step is a call of sync_csv_file
SyncCalled == last'.op = "sync" /\ ~last'.edited
\* ... that returned
SyncReturned == SyncCalled /\ last'.err = NULL

\* C1: a sync that repeats the successful sync before it (same file, job and
\* sync date) succeeds too, returns the same count and leaves the table as the
\* first run left it.
C1_Idempotent ==
    [][(SyncCalled /\ last'.again)
         => (last'.err = NULL /\ db' = db /\ last'.rows_synced = last.rows_synced)]_vars

C1_Witness ==
    /\ last.op = "sync" /\ last.again /\ last.err = NULL
    /\ last.rows_synced = 2 /\ Cardinality(db.rows) = 2
    /\ last.cleaned

\* the conclusion of C2 for a sync of ids I2 under S when the table held I1 under S
StaleScope(I1, I2, S) ==
    /\ last'.deleted = Cardinality(I1 \ I2)
    /\ Cardinality(db.rows) - Cardinality(db'.rows) = Cardinality(I1 \ I2)
    /\ IdsOf(Scoped(db', S)) = I2
    /\ db.rows \ Scoped(db, S) = db'.rows \ Scoped(db', S)

\* the step syncs, under the scope S1 of the successful sync before it and
\* with the same job, a file whose ids are among the ids of that sync
SyncsSubset ==
    /\ last.op = "sync" /\ last.err = NULL /\ last.cleaned
    /\ SyncReturned
    /\ last'.job = last.job /\ last'.sync_date = last.sync_date
    /\ last'.synced_ids \subseteq last.synced_ids

\* C2 as stated: after a sync of ids I1 under scope S1, a sync of any subset
\* I2 of I1 under S1 deletes |I1 \ I2| rows, leaves exactly I2 under S1 and
\* changes no row of another scope.
C2_AnySubset ==
    [][SyncsSubset => StaleScope(last.synced_ids, last'.synced_ids, last'.sync_date)]_vars

\* C2 amended: the same for every non-empty subset I2.
C2_NonEmptySubset ==
    [][(SyncsSubset /\ last'.synced_ids # {})
         => StaleScope(last.synced_ids, last'.synced_ids, last'.sync_date)]_vars

\* one of two ids dropped under d1 while a third row stays under d2
C2_Witness ==
    /\ last.op = "sync" /\ last.err = NULL /\ last.sync_date = "d1"
    /\ last.deleted = 1 /\ last.synced_ids = {"1"} /\ ~last.again
    /\ IdsOf(Scoped(db, "d1")) = {"1"}
    /\ IdsOf(Scoped(db, "d2")) = {"3"}

\* the value the file gives to an id (its last row with that id)
FileVal(f, id) ==
    LET i == CHOOSE i \in DOMAIN f.rows :
                /\ f.rows[i]["id"] = id
                /\ \A j \in DOMAIN f.rows : f.rows[j]["id"] = id => j <= i
    IN f.rows[i]["val"]

\* the step is upsert_row(conflict_columns, row_data) on a table that holds a
\* row with the key of row_data, and it returned
UpsertsExisting(conflict_columns, row_data) ==
    /\ UpsertRowCall(conflict_columns, row_data)
    /\ last'.err = NULL
    /\ \E r \in db.rows : \A k \in Range(conflict_columns) : r[k] = row_data[k]

\* ... then the row count is unchanged, every row with another key is
\* unchanged, and the row with that key holds the given values, its other
\* columns as before
UpdatesOneRow(conflict_columns, row_data) ==
    /\ Cardinality(db'.rows) = Cardinality(db.rows)
    /\ \A r \in db.rows :
          IF \E k \in Range(conflict_columns) : r[k] # row_data[k]
          THEN r \in db'.rows
          ELSE [c \in DOMAIN r |-> IF c \in DOMAIN row_data THEN row_data[c] ELSE r[c]]
                 \in db'.rows

\* a sync of the job without a date column that returned: every id of the
\* file already in the table keeps its one row, now with the file's value and
\* its other columns as before; rows with other ids are unchanged; the table
\* grows by the new ids only
SyncUpdatesInPlace ==
    /\ Cardinality(db'.rows)
         = Cardinality(db.rows) + Cardinality(last'.synced_ids \ IdsOf(db.rows))
    /\ \A r \in db.rows :
          IF r["id"] \in last'.synced_ids
          THEN [r EXCEPT !["val"] = FileVal(file, r["id"])] \in db'.rows
          ELSE r \in db'.rows

\* C3: an upsert of a key (single or compound) that is already in the table
\* changes that row's non-key values to the given ones, leaves the number of
\* rows as it was and modifies no other row; so does a sync for every id of
\* its file that is already in the table.
C3_UpsertUpdatesInPlace ==
    [][/\ \A conflict_columns \in KeyLists, row_data \in KeyedRows :
            UpsertsExisting(conflict_columns, row_data)
              => UpdatesOneRow(conflict_columns, row_data)
       /\ (SyncReturned /\ db.exists /\ HasColumn(db, "val")) => SyncUpdatesInPlace]_vars

\* a sync changed the value of id 1 while the row of id 2 and the column the
\* file does not carry stayed as they were
C3_Witness ==
    /\ last.op = "sync" /\ last.err = NULL /\ last.rows_synced = 1
    /\ last.pre.rows = {[id |-> "1", val |-> "7", num |-> "x"],
                        [id |-> "2", val |-> "7", num |-> NULL]}
    /\ db.rows = {[id |-> "1", val |-> "x", num |-> "x"],
                  [id |-> "2", val |-> "7", num |-> NULL]}

\* an upsert changed the non-key value of the compound key (1, 7) while the
\* row of (1, x) stayed
CompoundUpdateReached ==
    /\ last.op = "upsert_row" /\ last.err = NULL
    /\ db.pk = {"id", "val"}
    /\ last.pre.rows = {[id |-> "1", val |-> "7", num |-> "7"],
                        [id |-> "1", val |-> "x", num |-> "7"]}
    /\ db.rows = {[id |-> "1", val |-> "7", num |-> "x"],
                  [id |-> "1", val |-> "x", num |-> "7"]}

\* C4: the dry run of a call and the call itself, on the same table, file, job
\* and sync date, raise the same error or none, and then rows_to_sync is the
\* number of rows the sync upserted and rows_to_delete the number its
\* stale-delete pass removed.
C4_DryRunMatchesSync ==
    [][(SyncCalled /\ last'.after_dry)
         => /\ last'.err = last.err
            /\ last'.err = NULL
                 => /\ last.summary.rows_to_sync = last'.rows_synced
                    /\ last.summary.rows_to_delete = last'.deleted]_vars

\* a sync that followed its dry run removed one stale row and moved one row
\* into the scope, as predicted
C4_Witness ==
    /\ last.op = "sync" /\ last.after_dry /\ last.err = NULL
    /\ last.sync_date = "d1"
    /\ last.rows_synced = 1 /\ last.deleted = 1
    /\ IdsOf(Scoped(last.pre, "d1")) = {"1"}
    /\ IdsOf(Scoped(last.pre, "d2")) = {"2"}
    /\ IdsOf(Scoped(db, "d1")) = {"2"}

C6_EmptyIdsDeleteNothing ==
    [][/\ \A sync_date \in Dates :
            DeleteStaleCall("id", "sync_date", sync_date, {})
              => (db' = db /\ last'.deleted = 0 /\ last'.err = NULL)
       /\ (SyncReturned /\ file.rows = <<>> /\ last'.cleaned)
            => /\ Scoped(db, last'.sync_date) \subseteq db'.rows
               /\ db'.rows = db.rows
               /\ last'.deleted = 0]_vars

\* the sync of an empty file under d1 with two rows of d1 in the table
C6_Witness ==
    /\ last.op = "sync" /\ last.err = NULL /\ last.cleaned
    /\ last.sync_date = "d1" /\ last.rows_synced = 0 /\ last.deleted = 0
    /\ file.rows = <<>>
    /\ IdsOf(Scoped(last.pre, "d1")) = {"1", "2"}
    /\ IdsOf(Scoped(db, "d1")) = {"1", "2"}

\* the destination columns of a job on a file with that header
DestinationColumns(job, header) ==
    LET sync_columns == SyncColumns(job, header)
    IN {sync_columns[i].db_column : i \in DOMAIN sync_columns}
       \cup (IF HasDateMapping(job) THEN {job.date_mapping.db_column} ELSE {})

\* C7: no step removes a column of the table or changes its type, and after
\* every sync that returned, the existing columns (lower-cased) include the
\* lower-cased destination columns of its job.
C7_SchemaMonotone ==
    [][/\ db.exists
            => /\ db'.exists
               /\ \A c \in DOMAIN db.cols : HasColumn(db', c) /\ db'.cols[c] = db.cols[c]
       /\ SyncReturned
            => \A c \in DestinationColumns(last'.job, file.header) :
                  Lower(c) \in GetExistingColumns(db')]_vars

\* a table made with id and a TEXT num column, then synced by the job that
\* maps val to VAL and to an integer num and carries a date column
C7_Witness ==
    /\ last.op = "sync" /\ last.err = NULL /\ last.job = JobWide
    /\ last.rows_synced = 1
    /\ DOMAIN last.pre.cols = {"id", "num"}
    /\ DOMAIN db.cols = {"id", "num", "VAL", "sync_date"}
    /\ db.cols["num"] = "TEXT"

\* C8: the primary key of the table is the id column alone, no two rows share
\* an id, and after a sync under a sync date every id of the file has exactly
\* one row, which carries that date, whatever date its row carried before.
C8_KeyIsIdentityOnly ==
    [][/\ db'.exists
            => /\ db'.pk = {IdMapping.db_column}
               /\ \A r1, r2 \in db'.rows : r1["id"] = r2["id"] => r1 = r2
       /\ (SyncReturned /\ last'.cleaned)
            => \A id \in last'.synced_ids :
                  /\ Cardinality({r \in db'.rows : r["id"] = id}) = 1
                  /\ \A r \in db'.rows : r["id"] = id => r["sync_date"] = last'.sync_date]_vars

\* id 1, synced under d1 before, synced under d2: one row, under d2, next to
\* the row of id 2 left under d1
C8_Witness ==
    /\ last.op = "sync" /\ last.err = NULL /\ last.sync_date = "d2"
    /\ last.synced_ids = {"1"}
    /\ last.pre.rows = {[id |-> "1", val |-> "7", sync_date |-> "d1"],
                        [id |-> "2", val |-> "7", sync_date |-> "d1"]}
    /\ db.rows = {[id |-> "1", val |-> "7", sync_date |-> "d2"],
                  [id |-> "2", val |-> "7", sync_date |-> "d1"]}

\* the file lacks the id column of the job or a column the job maps explicitly
LacksSourceColumn(job, f) ==
    /\ f.exists /\ f.header # <<>>
    /\ \/ job.id_mapping.csv_column \notin Range(f.header)
       \/ \E i \in DOMAIN job.columns : job.columns[i].csv_column \notin Range(f.header)

\* C9: a sync of a file that lacks the id column or an explicitly mapped
\* column raises ValueError and leaves the table as it was: not created, no
\* column added, no row written or deleted.
C9_MissingColumnNoWrite ==
    [][(SyncCalled /\ LacksSourceColumn(last'.job, file))
         => (last'.err = "ValueError" /\ db' = db)]_vars

\* the job that maps val, run with a date on a one-row file without val,
\* against a table that holds a row
C9_Witness ==
    /\ last.op = "sync" /\ last.err = "ValueError" /\ last.job = JobWide
    /\ last.sync_date = "d1"
    /\ file.header = <<"id", "num">> /\ Len(file.rows) = 1
    /\ db.exists /\ db.rows # {} /\ db = last.pre
    /\ ~HasColumn(db, "sync_date")

\* the rows of the file PostgreSQL rejects as input of the integer column
Rejected(f) == {i \in DOMAIN f.rows : ~IsInt(f.rows[i]["val"])}

\* the sync of JobWide fails at row k of the file: the call raises the
\* backend's error after k - 1 upserts; the ids of rows 1..k-1 hold the values
\* of their last row among those and the sync date; every other row of the
\* table is as before, none added and none deleted; no stale pass ran
FailsAtRow(k) ==
    LET written == {file.rows[i]["id"] : i \in 1..(k - 1)}
        lastOf(id) == CHOOSE i \in 1..(k - 1) :
                         /\ file.rows[i]["id"] = id
                         /\ \A j \in 1..(k - 1) : file.rows[j]["id"] = id => j <= i
    IN /\ last'.err = "BackendError"
       /\ last'.rows_synced = k - 1
       /\ ~last'.cleaned /\ last'.deleted = 0
       /\ \A id \in written :
             {r \in db'.rows : r["id"] = id}
               = {[id |-> id, VAL |-> file.rows[lastOf(id)]["val"],
                   num |-> file.rows[lastOf(id)]["val"], sync_date |-> last'.sync_date]}
       /\ {r \in db'.rows : r["id"] \notin written} = {r \in db.rows : r["id"] \notin written}

\* C10: when the upsert of row k fails (PostgreSQL rejects its value for the
\* integer column), the sync raises that error with rows 1..k-1 committed,
\* row k and the rows after it not written and no stale row deleted.
C10_FailureKeepsEarlierRows ==
    [][(SyncCalled /\ backend = "postgres" /\ Rejected(file) # {})
         => \E k \in Rejected(file) : (\A i \in Rejected(file) : k <= i) /\ FailsAtRow(k)]_vars

\* row 2 moved to d1 and stayed so when row 1 failed; id 1, under d1 and not
\* among the synced ids, was not deleted
C10_Witness ==
    /\ last.op = "sync" /\ last.err = "BackendError" /\ last.sync_date = "d1"
    /\ last.rows_synced = 1
    /\ file.rows = <<[id |-> "2", val |-> "7"], [id |-> "1", val |-> "x"]>>
    /\ last.pre.rows = {[id |-> "1", VAL |-> "7", num |-> "7", sync_date |-> "d1"],
                        [id |-> "2", VAL |-> "7", num |-> "7", sync_date |-> "d2"]}
    /\ db.rows = {[id |-> "1", VAL |-> "7", num |-> "7", sync_date |-> "d1"],
                  [id |-> "2", VAL |-> "7", num |-> "7", sync_date |-> "d1"]}

\* C11: a sync that follows an interrupted sync of the same file with the same
\* job and sync date ends as one uninterrupted sync of that file from the
\* table the interrupted sync started on: it returns when that one returns, and
\* then with the same table, the same count and the same number of deletions.
C11_RetryConverges ==
    [][(SyncCalled /\ last'.retried)
         => LET whole == SyncCsvFile(backend, last.pre, file, last'.job, last'.sync_date)
            IN /\ last'.err = whole.err
               /\ db' = whole.db
               /\ last'.rows_synced = whole.rows_synced]_vars

\* the retry of a sync that was interrupted after its first row had replaced
\* the value of id 1 and moved it to d2, with a stale row of d2 still to delete
C11_Witness ==
    /\ last.op = "sync" /\ last.retried /\ last.err = NULL
    /\ last.sync_date = "d2" /\ last.rows_synced = 2 /\ last.deleted = 1
    /\ IdsOf(Scoped(last.pre, "d2")) = {"1", "2"}
    /\ file.rows = <<[id |-> "1", val |-> "x"], [id |-> "1", val |-> "7"]>>
    /\ db.rows = {[id |-> "1", val |-> "7", sync_date |-> "d2"]}

\* the step is a sync with filename values that returned after upserting rows
SyncKeysReturned == last'.op = "sync_keys" /\ last'.err = NULL /\ last'.synced_ids # {}
\* no row of the table after the step has the id of r
Deleted(r) == \A q \in db'.rows : q["id"] # r["id"]
\* r carries the mission, and the date, of the file name
SameMission(r, fv) == r["mission_name"] = fv["mission"]
SameDate(r, fv) == r["observation_date"] = fv["date"]

FileIds == {file.rows[i]["id"] : i \in DOMAIN file.rows}
\* the ids of the rows of t that carry mission m and date d
Under(t, m, d) ==
    {r["id"] : r \in {q \in t.rows : q["mission_name"] = m /\ q["observation_date"] = d}}
\* t holds ids1 under (m, d1), ids2 under (m, d2) and no other row
Holds(t, ids1, ids2) ==
    /\ Cardinality(t.rows) = Cardinality(ids1) + Cardinality(ids2)
    /\ Under(t, "m", "d1") = ids1
    /\ Under(t, "m", "d2") = ids2
\* the step syncs the file with the given ids under mission m and date d
SyncsMission(ids, d) ==
    /\ last'.op = "sync_keys" /\ FileIds = ids
    /\ last'.filename_values["mission"] = "m" /\ last'.filename_values["date"] = d

SyncKeysCalled == last'.op = "sync_keys" /\ last'.err = NULL
\* no row of the table after the step has the (store, product) of r
DeletedKey(r) ==
    \A q \in db'.rows : q["store_id"] # r["store_id"] \/ q["product_id"] # r["product_id"]
\* the values of the first id column in the rows of the file
FileStores == {file.rows[i]["store_id"] : i \in DOMAIN file.rows}
\* the rows of the table before the step that carry the date of the file name
InScope(fv) == {r \in db.rows : r["sync_date"] = fv["date"]}

\* C14 as stated: with the compound id (store_id, product_id) and the date of
\* the file name as scope, a row of the scope is deleted exactly when its
\* store_id occurs in no row of the file, and the dry run counts those rows.
C14_FirstIdDecides ==
    [][SyncKeysCalled
         => LET stale == {r \in InScope(last'.filename_values) :
                             r["store_id"] \notin FileStores}
            IN /\ \A r \in InScope(last'.filename_values) : DeletedKey(r) <=> r \in stale
               /\ last'.deleted = Cardinality(stale)
               /\ DryRunDeletesKeys(backend, db, file, JobInventory,
                                    last'.filename_values) = Cardinality(stale)]_vars

\* C14, amended: the same for a file with at least one row; a file without
\* rows deletes nothing and its dry run counts nothing.
C14_FirstIdDecidesNonEmpty ==
    [][SyncKeysCalled
         => LET stale == {r \in InScope(last'.filename_values) :
                             r["store_id"] \notin FileStores}
                gone == IF file.rows = <<>> THEN {} ELSE stale
            IN /\ \A r \in InScope(last'.filename_values) : DeletedKey(r) <=> r \in gone
               /\ last'.deleted = Cardinality(gone)
               /\ DryRunDeletesKeys(backend, db, file, JobInventory,
                                    last'.filename_values) = Cardinality(gone)]_vars

\* a sync under d1 of a file holding (1, A) alone, on a table holding both
\* products of both stores under d1: the two rows of store 3 are deleted,
\* (1, B) is kept although the file no longer holds it
C14_Witness ==
    /\ last.op = "sync_keys" /\ last.err = NULL /\ last.deleted = 2
    /\ last.filename_values["date"] = "d1"
    /\ file.rows = <<[store_id |-> "1", product_id |-> "A", quantity |-> "7"]>>
    /\ Cardinality(last.pre.rows) = 4
    /\ \A r \in last.pre.rows : r["sync_date"] = "d1"
    /\ db.rows = {[store_id |-> "1", product_id |-> p, quantity |-> "7",
                   sync_date |-> "d1"] : p \in {"A", "B"}}

\* C15: a sync whose job has no date column, or that is given no sync date,
\* runs no stale pass and removes no row: every id of the table before the
\* call is an id of the table after it; the pass runs only for a job with a
\* date column and a sync date.
C15_NoScopeNoDelete ==
    [][SyncCalled
         => /\ last'.cleaned => (HasDateMapping(last'.job) /\ last'.sync_date # NULL)
            /\ (~HasDateMapping(last'.job) \/ last'.sync_date = NULL)
                  => /\ IdsOf(db.rows) \subseteq IdsOf(db'.rows)
                     /\ last'.deleted = 0]_vars

\* a job with a date column synced without a sync date, on a table that holds
\* an id the file does not: the row is still there
C15_Witness ==
    /\ last.op = "sync" /\ last.err = NULL /\ last.rows_synced > 0
    /\ HasDateMapping(last.job) /\ last.sync_date = NULL
    /\ HasColumn(last.pre, "sync_date")
    /\ \E r \in last.pre.rows : r["id"] \notin last.synced_ids /\ r["sync_date"] = NULL
    /\ IdsOf(last.pre.rows) \subseteq IdsOf(db.rows)

\* C16: after every sequence of create_table_if_not_exists, add_column,
\* upsert_row and delete_stale_records calls made with the same arguments on
\* both backends, the two tables hold the same rows and the same column names,
\* and get_existing_columns and delete_stale_records returned the same values.
C16_BackendsAgree ==
    /\ db.rows = last.twin.rows
    /\ DOMAIN db.cols = DOMAIN last.twin.cols
    /\ GetExistingColumns(db) = GetExistingColumns(last.twin)
    /\ last.deleted = last.twin_deleted

\* C17: extract_values_from_filename, applied to the file name obtained by
\* putting non-empty values into the placeholders of a template, returns
\* exactly those values.
C17_TemplateRoundTrip ==
    last.op = "extract_values_from_filename"
       => /\ last.extracted.ok
          /\ last.extracted.groups = last.given

\* the step is a sync command on a file whose name does not match the pattern
SyncCommandNoMatch ==
    /\ last'.op = "sync_command"
    /\ DOMAIN last'.filename_values = {}
\* the filename columns of the job
FilenameColumns == {"mission_name", "observation_date", "file_version"}

C19_ErrorExitsNonZero ==
    /\ last.op \in {"extract", "inspect", "prepare"}
          => ((\E i \in DOMAIN last.inputs : last.inputs[i] # "ok") => last.exit_code # 0)
    /\ last.op = "sync_command"
          => ((last.err # NULL \/ DOMAIN last.filename_values = {}) => last.exit_code # 0)

\* the variables extract_cdf_to_csv was asked for
Selected ==
    {last.cdf_variables[i] : i \in {j \in DOMAIN last.cdf_variables :
        last.variable_names = {} \/ last.cdf_variables[j].name \in last.variable_names}}
\* the sum of the widths of a set of variables
RECURSIVE SumOfWidths(_)
SumOfWidths(vs) ==
    IF vs = {} THEN 0
    ELSE LET v == CHOOSE x \in vs : TRUE
         IN (IF v.is_array THEN v.array_size ELSE 1) + SumOfWidths(vs \ {v})

\* C20: in automerge mode extract_cdf_to_csv returns exactly one table per
\* distinct record count of at least 2 among the selected variables; the table
\* of a record count holds every selected variable of that count and no other,
\* its column count is the sum of their widths, every column has the table's
\* row count; a variable of fewer than 2 records is in no table.
C20_OneTablePerRecordCount ==
    (last.op = "extract_cdf_to_csv" /\ last.err = NULL)
       => LET counts == {v.num_records : v \in {x \in Selected : x.num_records >= 2}}
              of(n) == {v \in Selected : v.num_records = n}
          IN /\ Len(last.results) = Cardinality(counts)
             /\ \A n \in counts :
                   \E k \in DOMAIN last.results :
                      LET t == last.results[k]
                      IN /\ Range(t.variable_names) = {v.name : v \in of(n)}
                         /\ Len(t.variable_names) = Cardinality(of(n))
                         /\ t.num_columns = SumOfWidths(of(n))
                         /\ Len(t.data_columns) = t.num_columns
                         /\ \A c \in DOMAIN t.data_columns : t.data_columns[c] = t.num_rows
             /\ \A k \in DOMAIN last.results, v \in Selected :
                   v.name \in Range(last.results[k].variable_names) => v.num_records >= 2

\* a file with an array and a scalar of 3 records and a scalar of 1 record,
\* extracted whole: one table of the two variables with three columns of three
\* rows
C20_Witness ==
    /\ last.op = "extract_cdf_to_csv" /\ last.err = NULL
    /\ last.variable_names = {} /\ last.max_records = NoMaxRecords
    /\ last.cdf_variables = <<CDFVariable("a", 3, 2), CDFVariable("b", 3, 1),
                              CDFVariable("c", 1, 1)>>
    /\ Len(last.results) = 1
    /\ last.results[1].variable_names = <<"a", "b">>
    /\ last.results[1].num_columns = 3 /\ last.results[1].num_rows = 3

\* C21: the names _make_unique_column_names returns are pairwise distinct,
\* whatever list it is given.
C21_UniqueColumnNames ==
    last.op = "make_unique_column_names"
       => /\ Len(last.unique_names) = Len(last.column_names)
          /\ \A i, j \in DOMAIN last.unique_names :
                last.unique_names[i] = last.unique_names[j] => i = j

\* the list a, a_1, a comes back as a, a_1, a_1
C21_Collision ==
    /\ last.op = "make_unique_column_names"
    /\ last.column_names = <<Name("a", <<>>), Name("a", <<1>>), Name("a", <<>>)>>
    /\ last.unique_names = <<Name("a", <<>>), Name("a", <<1>>), Name("a", <<1>>)>>

\* min(record_count, m)
Capped(n, m) == IF m < n THEN m ELSE n
\* extract_cdf_to_csv returned, with a record limit
ExtractedWithLimit ==
    last.op = "extract_cdf_to_csv" /\ last.err = NULL /\ last.max_records # NoMaxRecords
\* the table of the results that holds exactly the variables vs has rows rows,
\* in every column
HasTable(vs, rows) ==
    \E k \in DOMAIN last.results :
       LET t == last.results[k]
       IN /\ Range(t.variable_names) = {v.name : v \in vs}
          /\ t.num_rows = rows
          /\ \A c \in DOMAIN t.data_columns : t.data_columns[c] = rows

\* C22 as stated: with max_records = m the selected variables (here all of at
\* least 2 records, m at least 2) are grouped by min(record_count, m): one
\* table per capped count, holding the variables of that capped count, with
\* that many rows.
C22_GroupedByCappedCount ==
    (ExtractedWithLimit /\ last.max_records >= 2
        /\ \A v \in Selected : v.num_records >= 2)
       => LET m == last.max_records
              counts == {Capped(v.num_records, m) : v \in Selected}
          IN /\ Len(last.results) = Cardinality(counts)
             /\ \A c \in counts :
                   HasTable({v \in Selected : Capped(v.num_records, m) = c}, c)

\* C22, amended: with max_records = m the selected variables are grouped by
\* their record count as read from the file; a group of fewer than 2 records
\* gives no table, every other group gives one table, rectangular, with
\* min(record_count, m) rows.
C22_CappedAfterGrouping ==
    ExtractedWithLimit
       => LET m == last.max_records
              counts == {v.num_records : v \in {x \in Selected : x.num_records >= 2}}
          IN /\ Len(last.results) = Cardinality(counts)
             /\ \A n \in counts :
                   HasTable({v \in Selected : v.num_records = n}, Capped(n, m))

\* variables of 3 and of 2 records, extracted with max_records = 2: two tables
\* of 2 rows each
C22_Witness ==
    /\ ExtractedWithLimit /\ last.max_records = 2 /\ last.variable_names = {}
    /\ last.cdf_variables = <<CDFVariable("a", 3, 1), CDFVariable("b", 2, 2)>>
    /\ Len(last.results) = 2
    /\ last.results[1].variable_names = <<"a">> /\ last.results[1].num_rows = 2
    /\ last.results[2].variable_names = <<"b">> /\ last.results[2].num_rows = 2

\* the names of the variables of the CDF file
SourceNames == {last.cdf_variables[i].name : i \in DOMAIN last.cdf_variables}
ExtractDirCalled == last.op = "extract_cdf_to_dir"

\* C23: when a requested variable name is not in the CDF file,
\* extract_cdf_to_csv raises ValueError, its message lists exactly the missing
\* names, each once, in sorted order, and the output directory is as it was
\* before the call: not created, no file written or changed.
C23_MissingNamesSorted ==
    (ExtractDirCalled /\ ~(last.variable_names \subseteq SourceNames))
       => /\ last.err = "ValueError"
          /\ Range(last.missing) = last.variable_names \ SourceNames
          /\ \A i, j \in DOMAIN last.missing :
                i < j => Rank(last.missing[i]) < Rank(last.missing[j])
          /\ last.output_dir = last.pre_dir
          /\ last.results = <<>>

\* a file with the variable a only, asked for b and c, into a directory that
\* does not exist: the message names b, c and the directory still does not exist
C23_Witness ==
    /\ ExtractDirCalled /\ last.variable_names = {"b", "c"}
    /\ SourceNames = {"a"}
    /\ last.err = "ValueError" /\ last.missing = <<"b", "c">>
    /\ ~last.pre_dir.exists /\ ~last.output_dir.exists

\* the call named no variable the file lacks
ExtractDirNoneMissing == ExtractDirCalled /\ last.variable_names \subseteq SourceNames
\* the tables of the call, and the files they go to
CallTables ==
    Tables(SelectSeq(last.cdf_variables,
                     LAMBDA v : last.variable_names = {} \/ v.name \in last.variable_names),
           last.automerge, last.max_records)
Targets == {CallTables[k].variable_names[1] : k \in DOMAIN CallTables}
TableFor(f) == CallTables[CHOOSE k \in DOMAIN CallTables : CallTables[k].variable_names[1] = f]
\* the target f was there before the call; its first row was, or was not, the
\* header of the table that goes to it
Existed(f) == last.pre_dir.files[f].present
HeaderMatches(f) ==
    /\ Len(last.pre_dir.files[f].lines) > 0
    /\ last.pre_dir.files[f].lines[1] = HeaderRow(TableFor(f).column_names)
Untouched(f) == last.output_dir.files[f] = last.pre_dir.files[f]
HeaderCount(csv) == Cardinality({i \in DOMAIN csv.lines : csv.lines[i].kind = "header"})

\* C24: when a target file exists and append is false, extract_cdf_to_csv
\* raises FileExistsError; when append is true and an existing target has
\* another header, it raises ValueError; in both cases every such file is what
\* it was. When append is true and every existing target has the header of its
\* table, the call returns and each of them is the old file followed by the
\* data rows of the table and nothing else, with one header row.
C24_ExistingFiles ==
    ExtractDirNoneMissing
       => /\ (~last.append /\ \E f \in Targets : Existed(f))
                => /\ last.err = "FileExistsError"
                   /\ \A f \in Targets : Existed(f) => Untouched(f)
          /\ (last.append /\ \E f \in Targets : Existed(f) /\ ~HeaderMatches(f))
                => /\ last.err = "ValueError"
                   /\ \A f \in Targets : (Existed(f) /\ ~HeaderMatches(f)) => Untouched(f)
          /\ (last.append /\ \A f \in Targets : Existed(f) => HeaderMatches(f))
                => /\ last.err = NULL
                   /\ \A f \in Targets :
                         Existed(f)
                            => LET old == last.pre_dir.files[f].lines
                                   new == last.output_dir.files[f].lines
                                   t == TableFor(f)
                               IN /\ Len(new) = Len(old) + t.num_rows
                                  /\ SubSeq(new, 1, Len(old)) = old
                                  /\ \A i \in 1..t.num_rows :
                                        new[Len(old) + i] = DataRow(t.column_names, i)
                                  /\ HeaderCount(last.output_dir.files[f]) = 1

\* the variable a of 2 records extracted a second time, with append: the file
\* a goes from 3 lines to 5 and has one header
C24_Witness ==
    /\ ExtractDirNoneMissing /\ last.append /\ last.err = NULL
    /\ Targets = {"a"} /\ Existed("a") /\ HeaderMatches("a")
    /\ Len(last.pre_dir.files["a"].lines) = 3
    /\ Len(last.output_dir.files["a"].lines) = 5
    /\ HeaderCount(last.output_dir.files["a"]) = 1

\* the same file met without append, and a file of another program met with
\* append: both raise and leave the file alone
C24_WitnessExists ==
    /\ ExtractDirNoneMissing /\ ~last.append /\ last.err = "FileExistsError"
    /\ \E f \in Targets : Existed(f) /\ Untouched(f)
C24_WitnessMismatch ==
    /\ ExtractDirNoneMissing /\ last.append /\ last.err = "ValueError"
    /\ \E f \in Targets : Existed(f) /\ ~HeaderMatches(f) /\ Untouched(f)

\* the recognised type names: the nine words of type_mapping and varchar(N),
\* in any case, with or without blanks around them
RecognisedWords == {"integer", "int", "float", "double", "date", "datetime",
                    "timestamp", "text", "string"}
Recognised(data_type) ==
    /\ ~data_type.none
    /\ LET t == StripText(LowerText(data_type.text))
       IN \/ Len(t) = 1 /\ t[1].w \in RecognisedWords
          \/ t = <<Piece("varchar", FALSE), Piece("(10)", FALSE)>>

\* C25: map_data_type of either backend returns TEXT for None and for every
\* type name that is not a recognised one, names that only begin with
\* "varchar" included.
C25_UnknownIsText ==
    (last.op = "map_data_type" /\ ~Recognised(last.data_type))
       => last.sql_type = SqlText

\* PostgreSQL given "varcharx" returns "VARCHARX"
C25_VarcharPrefix ==
    /\ last.op = "map_data_type" /\ backend = "postgres"
    /\ last.data_type = TypeName(<<Piece("varchar", FALSE), Piece("x", FALSE)>>)
    /\ last.sql_type = <<Piece("varchar", TRUE), Piece("x", TRUE)>>

\* what the claim says holds on SQLite, and on PostgreSQL for the names that do
\* not begin with "varchar"
C25_UnknownIsTextElsewhere ==
    (last.op = "map_data_type" /\ ~Recognised(last.data_type)
        /\ (backend = "sqlite" \/ last.data_type.none
               \/ ~StartsWithVarchar(StripText(LowerText(last.data_type.text)))))
       => last.sql_type = SqlText

\* the values of the model by kind: blank ("", " "), integers ("1", "-1",
\* " 1 "), the decimal "1.1", the date, the datetime
BlankValues == {<<>>, <<Run(" ", 1)>>}
IntegerValues == {<<Digits(1)>>, <<Run("-", 1), Digits(1)>>, <<Run(" ", 1), Digits(1), Run(" ", 1)>>}
DecimalValues == {<<Digits(1), Run(".", 1), Digits(1)>>}
DateValues == {<<Digits(4), Run("-", 1), Digits(2), Run("-", 1), Digits(2)>>}
DatetimeValues ==
    {<<Digits(4), Run("-", 1), Digits(2), Run("-", 1), Digits(2), Run(" ", 1),
       Digits(2), Run(":", 1), Digits(2), Run(":", 1), Digits(2)>>}

\* C26: detect_column_type gives text for a sample without a non-empty value;
\* else integer when all non-empty values are integers, float when all are
\* integers or decimals, date when all are dates, datetime when all are
\* datetimes; else, with N the length of the longest non-empty value,
\* varchar(N) when N <= 255 and text when N >= 256.
C26_DetectedType ==
    last.op = "detect_column_type"
       => LET vs == Range(last.values) \ BlankValues
              N == Max({StrLen(v) : v \in vs})
          IN last.detected =
                (IF vs = {} THEN Detected("text", 0)
                 ELSE IF vs \subseteq IntegerValues THEN Detected("integer", 0)
                 ELSE IF vs \subseteq IntegerValues \cup DecimalValues THEN Detected("float", 0)
                 ELSE IF vs \subseteq DateValues THEN Detected("date", 0)
                 ELSE IF vs \subseteq DatetimeValues THEN Detected("datetime", 0)
                 ELSE IF N <= 255 THEN Detected("varchar", N)
                 ELSE Detected("text", 0))

\* a word of 255 letters next to an integer: varchar(255)
C26_Witness ==
    /\ last.op = "detect_column_type"
    /\ last.values = <<<<Run("x", 255)>>, <<Digits(1)>>>>
    /\ last.detected = Detected("varchar", 255)

\* a word of 256 letters: text; an integer and a decimal: float
C26_WitnessText ==
    /\ last.op = "detect_column_type"
    /\ last.values = <<<<Run("x", 256)>>>> /\ last.detected = Detected("text", 0)
C26_WitnessFloat ==
    /\ last.op = "detect_column_type"
    /\ last.values = <<<<Digits(1)>>, <<Digits(1), Run(".", 1), Digits(1)>>>>
    /\ last.detected = Detected("float", 0)

\* C27: add_or_update_job with force=False and a name already there raises
\* ValueError and leaves the jobs as they were; otherwise it puts the job
\* under its name and leaves every other job as it was. prepare on one file
\* writes the config file only when the job was added or replaced, and then
\* the file holds it; when it does not write, the file is what it was.
C27_AddOrUpdateJob ==
    /\ last.op = "add_or_update_job"
          => IF last.pre_jobs[last.new_job.name].present /\ ~last.force
             THEN last.err = "ValueError" /\ last.jobs = last.pre_jobs
             ELSE /\ last.err = NULL
                  /\ last.jobs[last.new_job.name] = Entry(last.new_job)
                  /\ \A n \in JobNames \ {last.new_job.name} :
                        last.jobs[n] = last.pre_jobs[n]
    /\ last.op = "prepare_one"
          => LET held == last.pre_config_file.exists
                            /\ last.pre_config_file.jobs[last.new_job.name].present
             IN /\ last.saved
                      => /\ last.input = "ok" /\ (~held \/ last.force)
                         /\ last.config_file.exists
                         /\ last.config_file.jobs[last.new_job.name] = Entry(last.new_job)
                         /\ \A n \in JobNames \ {last.new_job.name} :
                               last.config_file.jobs[n] = last.pre_config_file.jobs[n]
                /\ ~last.saved => last.config_file = last.pre_config_file
                /\ (held /\ ~last.force) => ~last.saved

\* a second job of the same name without force: ValueError, and the first job
\* stays
C27_Witness ==
    /\ last.op = "add_or_update_job" /\ ~last.force
    /\ last.new_job = NamedJob("j", "v2")
    /\ last.pre_jobs["j"] = Entry(NamedJob("j", "v1"))
    /\ last.err = "ValueError" /\ last.jobs["j"] = Entry(NamedJob("j", "v1"))

\* prepare of a file whose job is in the config file: without --force the
\* file is not written, with --force it is
C27_WitnessPrepare ==
    /\ last.op = "prepare_one" /\ last.force /\ last.saved
    /\ last.pre_config_file.jobs["j"] = Entry(NamedJob("j", "v1"))
    /\ last.config_file.jobs["j"] = Entry(NamedJob("j", "v2"))

\* the sync returned, and the file is the one it read
SyncReadFile == last.op = "sync" /\ last.err = NULL /\ ~last.edited /\ file.exists
\* the last row of the file with the id k
LastRowOf(k) ==
    file.rows[CHOOSE i \in DOMAIN file.rows :
                 /\ file.rows[i]["id"] = k
                 /\ \A j \in DOMAIN file.rows : file.rows[j]["id"] = k => j <= i]

\* C28: a sync that returns gives the number of rows of the file, duplicates
\* of an id counted each, and leaves for every id of the file exactly one row
\* in the table, with the values of the last row of that id in the file.
C28_LastDuplicateWins ==
    SyncReadFile
       => /\ last.rows_synced = Len(file.rows)
          /\ \A k \in {file.rows[i]["id"] : i \in DOMAIN file.rows} :
                /\ Cardinality({r \in db.rows : r["id"] = k}) = 1
                /\ \A r \in db.rows :
                      r["id"] = k
                         => \A m \in Range(last.job.columns) :
                               r[m.db_column] = LastRowOf(k)[m.csv_column]

\* a file with the id 1 twice, first with the value 7 and then with x: two
\* rows synced, one row in the table, with x
C28_Witness ==
    /\ SyncReadFile
    /\ Len(file.rows) = 2
    /\ file.rows[1]["id"] = "1" /\ file.rows[2]["id"] = "1"
    /\ file.rows[1]["val"] # file.rows[2]["val"]
    /\ last.rows_synced = 2
    /\ \A r \in db.rows : r["id"] = "1" => r["val"] = file.rows[2]["val"]
    /\ Cardinality({r \in db.rows : r["id"] = "1"}) = 1

\* C29: when the sync command on a CDF input has ended, with or without an
\* error, the temporary directory and every CSV file written into it are gone.
C29_TempFilesRemoved ==
    last.op = "sync_cdf_command" => last.temp_dir = NoTempDir

\* the extraction raised after it wrote a file: the file and the directory
\* are still there
C29_Leak ==
    /\ last.op = "sync_cdf_command" /\ last.err = "Abort"
    /\ last.extraction = [written |-> {1}, raised |-> TRUE]
    /\ last.temp_dir = [exists |-> TRUE, files |-> {1}]

\* what holds: the directory is gone whenever the extraction returned, or
\* raised before it wrote a file
C29_RemovedAfterReturn ==
    (last.op = "sync_cdf_command"
        /\ (~last.extraction.raised \/ last.extraction.written = {}))
       => last.temp_dir = NoTempDir
C29_WitnessSyncError ==
    /\ last.op = "sync_cdf_command" /\ last.err = "Abort"
    /\ ~last.extraction.raised /\ last.extraction.written = {1, 2}
    /\ last.temp_dir = NoTempDir

\* the step is upsert_row(conflict_columns, row_data) with a row of the
\* conflict columns only, on a table keyed by them
UpsertsKeyOnly(conflict_columns, row_data) ==
    /\ UpsertRowCall(conflict_columns, row_data)
    /\ DOMAIN row_data = Range(conflict_columns)
    /\ db.exists /\ db.pk = Range(conflict_columns)

\* C30: upsert_row with a row whose columns are all conflict columns returns;
\* when the key is in the table the table is unchanged, when it is not the
\* table has one more row, with that key.
C30_KeyOnlyUpsertSucceeds ==
    [][\A conflict_columns \in KeyLists, row_data \in KeyedRows :
          UpsertsKeyOnly(conflict_columns, row_data)
            => /\ last'.err = NULL
               /\ IF \E r \in db.rows : \A k \in DOMAIN row_data : r[k] = row_data[k]
                  THEN db' = db
                  ELSE /\ Cardinality(db'.rows) = Cardinality(db.rows) + 1
                       /\ \E r \in db'.rows \ db.rows :
                             \A k \in DOMAIN row_data : r[k] = row_data[k]]_vars

\* what the code does with such a row: it raises and the table is unchanged
C30_KeyOnlyUpsertRaises ==
    [][\A conflict_columns \in KeyLists, row_data \in KeyedRows :
          UpsertsKeyOnly(conflict_columns, row_data)
            => last'.err = "BackendError" /\ db' = db]_vars

====
